---- MODULE Spec2Model ----
(***************************************************************************)
(* Austin House Hunter: the run of main() over the persisted stores         *)
(* (favorites, dismissed, pending, preferences), the preference learning   *)
(* of learning.py and the relevance scoring and selection of main.py.      *)
(*                                                                         *)
(* Conventions of the model                                                *)
(*  - prices are in thousands of dollars (1000 = $1,000,000);              *)
(*  - Python None is None (-1) for numeric fields, NoName for names and    *)
(*    "None" for the tri-state HOA flag; a missing zpid is 0;              *)
(*  - Python floats are exact rationals <<n, d>> with d > 0, kept in       *)
(*    lowest terms; an absent rational (None) is NoneR = <<0, 0>>;         *)
(*  - latitude/longitude are abstracted to a point of a small geography    *)
(*    table giving what location.py computes for it.                       *)
(***************************************************************************)
EXTENDS Integers, Sequences, FiniteSets, TLC

\* ------------------------------------------------------------------------
\* Python values
\* ------------------------------------------------------------------------
None == -1
NoName == "None"
NoneR == <<0, 0>>

\* Python truthiness of an optional number: None and 0 are falsy
Truthy(x) == x # None /\ x # 0

Abs(x) == IF x < 0 THEN -x ELSE x
Min(a, b) == IF a < b THEN a ELSE b
Max(a, b) == IF a < b THEN b ELSE a

RECURSIVE GCD(_, _)
GCD(a, b) == IF b = 0 THEN a ELSE GCD(b, a % b)

\* rationals <<n, d>>, d > 0, in lowest terms
Rat(n, d) == LET g == GCD(Abs(n), d) IN <<n \div g, d \div g>>
RInt(n) == <<n, 1>>
RAdd(x, y) == Rat(x[1] * y[2] + y[1] * x[2], x[2] * y[2])
RSub(x, y) == Rat(x[1] * y[2] - y[1] * x[2], x[2] * y[2])
RMul(x, y) ==
    LET g1 == GCD(Abs(x[1]), y[2])
        g2 == GCD(Abs(y[1]), x[2])
    IN  Rat((x[1] \div g1) * (y[1] \div g2), (x[2] \div g2) * (y[2] \div g1))
RDiv(x, y) == RMul(x, <<y[2], y[1]>>)          \* y > 0
RAbs(x) == <<Abs(x[1]), x[2]>>

\* x < y without forming the cross products (continued-fraction comparison)
RECURSIVE RLess(_, _)
RLess(x, y) ==
    LET qx == x[1] \div x[2]
        qy == y[1] \div y[2]
        rx == x[1] % x[2]
        ry == y[1] % y[2]
    IN  IF qx # qy THEN qx < qy
        ELSE IF rx = 0 THEN ry > 0
        ELSE IF ry = 0 THEN FALSE
        ELSE RLess(<<y[2], ry>>, <<x[2], rx>>)
RLeq(x, y) == ~RLess(y, x)
RMax(x, y) == IF RLess(x, y) THEN y ELSE x
RMin(x, y) == IF RLess(y, x) THEN y ELSE x

\* ------------------------------------------------------------------------
\* Sequences as Python lists
\* ------------------------------------------------------------------------
Range(s) == {s[i] : i \in 1..Len(s)}
InList(x, s) == \E i \in 1..Len(s) : s[i] = x

\* s[a:]  and  s[:b]  (0-based Python slices with non-negative bounds)
SliceFrom(s, a) == SubSeq(s, a + 1, Len(s))
SliceTo(s, b) == SubSeq(s, 1, Min(b, Len(s)))
\* s[-k:]
LastK(s, k) == SubSeq(s, Max(1, Len(s) - k + 1), Len(s))

RECURSIVE SumSeq(_)
SumSeq(s) == IF s = << >> THEN 0 ELSE Head(s) + SumSeq(Tail(s))

\* list.remove(x): drops the first occurrence of x
RECURSIVE RemoveFirst(_, _)
RemoveFirst(s, x) ==
    IF s = << >> THEN << >>
    ELSE IF Head(s) = x THEN Tail(s)
    ELSE <<Head(s)>> \o RemoveFirst(Tail(s), x)

\* list.sort(key=...): a stable sort.  Keyed is a list of <<key, item>> with
\* rational keys.  With reverse=True Python keeps equal keys in their
\* original order as well, so both directions are a stable insertion sort.
RECURSIVE InsertAsc(_, _)
InsertAsc(sorted, x) ==
    IF sorted = << >> THEN <<x>>
    ELSE IF RLess(x[1], Head(sorted)[1]) THEN <<x>> \o sorted
    ELSE <<Head(sorted)>> \o InsertAsc(Tail(sorted), x)

RECURSIVE InsertDesc(_, _)
InsertDesc(sorted, x) ==
    IF sorted = << >> THEN <<x>>
    ELSE IF RLess(Head(sorted)[1], x[1]) THEN <<x>> \o sorted
    ELSE <<Head(sorted)>> \o InsertDesc(Tail(sorted), x)

RECURSIVE SortKeyedAsc(_)
SortKeyedAsc(keyed) ==
    IF keyed = << >> THEN << >>
    ELSE InsertAsc(SortKeyedAsc(SubSeq(keyed, 1, Len(keyed) - 1)), keyed[Len(keyed)])

RECURSIVE SortKeyedDesc(_)
SortKeyedDesc(keyed) ==
    IF keyed = << >> THEN << >>
    ELSE InsertDesc(SortKeyedDesc(SubSeq(keyed, 1, Len(keyed) - 1)), keyed[Len(keyed)])

Items(keyed) == [i \in 1..Len(keyed) |-> keyed[i][2]]
\* s.sort(key=Key)  and  s.sort(key=Key, reverse=True)
SortAsc(s, Key(_)) == Items(SortKeyedAsc([i \in 1..Len(s) |-> <<Key(s[i]), s[i]>>]))
SortDesc(s, Key(_)) == Items(SortKeyedDesc([i \in 1..Len(s) |-> <<Key(s[i]), s[i]>>]))

\* ------------------------------------------------------------------------
\* location.py: what the geography gives for a listing's coordinates.
\* A point stands for a (latitude, longitude) pair; point 0 is "no
\* coordinates".  For each point: the closest neighborhood (get_neighborhood),
\* the miles to the anchor (distance_to_sapphire) and the neighborhoods within
\* 2 miles in NEIGHBORHOODS order (get_nearby_neighborhoods).
\* ------------------------------------------------------------------------
NoPoint == 0
Geography ==
    [p \in 1..5 |->
        CASE p = 1 -> [neighborhood |-> "Zilker",     distance |-> 2,
                       nearby |-> <<"Zilker", "Barton Hills">>]
          [] p = 2 -> [neighborhood |-> "Mueller",    distance |-> 4,
                       nearby |-> <<"Mueller">>]
          [] p = 3 -> [neighborhood |-> "Tarrytown",  distance |-> 3,
                       nearby |-> << >>]
          [] p = 4 -> [neighborhood |-> "Downtown",   distance |-> 0,
                       nearby |-> <<"Downtown", "Rainey Street">>]
          [] p = 5 -> [neighborhood |-> "Round Rock", distance |-> 20,
                       nearby |-> << >>]]

get_neighborhood(point) == Geography[point].neighborhood
distance_to_sapphire(point) == Geography[point].distance
get_nearby_neighborhoods(point) == Geography[point].nearby

\* ------------------------------------------------------------------------
\* Listings.  parse_listing gives every listing the same keys; distance,
\* neighborhood and relevance_score are filled in by main().
\* ------------------------------------------------------------------------
Listing(z, price, beds, baths, sqft, hoa, days, point) ==
    [zpid |-> z, price |-> price, beds |-> beds, baths |-> baths, sqft |-> sqft,
     has_hoa |-> hoa, days_on_market |-> days, point |-> point,
     distance |-> None, neighborhood |-> NoName, relevance_score |-> NoneR]

\* The market: what the listing source can return, by catalog number.
\* 1..6 are under the bucket threshold, 7..9 at or over it, 10 is over the
\* configured maximum price, 11 has no zpid; 5 and 12 differ in zpid only.
Catalog ==
    [k \in 1..12 |->
        CASE k = 1  -> Listing(1,  500,  3,    2,    1500, "False", 6,    1)
          [] k = 2  -> Listing(2,  600,  None, None, None, "False", 30,   2)
          [] k = 3  -> Listing(3,  700,  4,    None, 2000, "True",  None, 3)
          [] k = 4  -> Listing(4,  800,  None, 2,    None, "False", 12,   4)
          [] k = 5  -> Listing(5,  900,  None, None, None, "False", 60,   5)
          [] k = 6  -> Listing(6,  450,  2,    1,    None, "True",  90,   NoPoint)
          [] k = 7  -> Listing(7,  1000, None, None, 2500, "False", 0,    1)
          [] k = 8  -> Listing(8,  1500, 5,    3,    None, "False", 30,   2)
          [] k = 9  -> Listing(9,  1200, None, None, None, "True",  12,   3)
          [] k = 10 -> Listing(10, 2500, 6,    4,    4000, "False", 6,    4)
          [] k = 11 -> Listing(0,  650,  None, None, None, "False", 6,    2)
          [] k = 12 -> Listing(12, 900,  None, None, None, "False", 60,   5)]

\* config.yaml: the search criteria (absent keys are None, lists are empty)
Config ==
    [min_price |-> None, max_price |-> 2000,
     min_beds |-> None, max_beds |-> None,
     min_baths |-> None, max_baths |-> None,
     min_sqft |-> None, max_sqft |-> None,
     max_days_on_market |-> None]

\* ListingFilter.matches: property_types and zip_codes are empty in Config
matches(listing) ==
    /\ Truthy(listing.price) =>
          /\ ~(Truthy(Config.min_price) /\ listing.price < Config.min_price)
          /\ ~(Truthy(Config.max_price) /\ listing.price > Config.max_price)
    /\ Truthy(listing.beds) =>
          /\ ~(Truthy(Config.min_beds) /\ listing.beds < Config.min_beds)
          /\ ~(Truthy(Config.max_beds) /\ listing.beds > Config.max_beds)
    /\ Truthy(listing.baths) =>
          /\ ~(Truthy(Config.min_baths) /\ listing.baths < Config.min_baths)
          /\ ~(Truthy(Config.max_baths) /\ listing.baths > Config.max_baths)
    /\ Truthy(listing.sqft) =>
          /\ ~(Truthy(Config.min_sqft) /\ listing.sqft < Config.min_sqft)
          /\ ~(Truthy(Config.max_sqft) /\ listing.sqft > Config.max_sqft)
    /\ Truthy(Config.max_days_on_market) =>
          ~(Truthy(listing.days_on_market)
              /\ listing.days_on_market > Config.max_days_on_market)

filter_listings(listings) == SelectSeq(listings, matches)

enrich_listing(listing) ==
    IF listing.point # NoPoint
    THEN [listing EXCEPT !.distance = distance_to_sapphire(listing.point),
                         !.neighborhood = get_neighborhood(listing.point)]
    ELSE [listing EXCEPT !.distance = None, !.neighborhood = NoName]

\* ------------------------------------------------------------------------
\* learning.py: the preference profile
\* ------------------------------------------------------------------------
NoWeights == [n \in {} |-> NoneR]
TopNeighborhoods == 5
HistoryLength == 10

get_default_preferences ==
    [preferred_neighborhoods |-> << >>,
     neighborhood_weights |-> NoWeights,
     ideal_price |-> NoneR, ideal_sqft |-> NoneR,
     ideal_beds |-> NoneR, ideal_baths |-> NoneR,
     hoa_preference |-> "None",
     price_history |-> << >>, sqft_history |-> << >>,
     beds_history |-> << >>, baths_history |-> << >>]

\* the neighborhoods one favorite contributes (learning.py lines 81-89)
FavoriteNeighborhoods(listing) ==
    IF listing.neighborhood # NoName
    THEN <<listing.neighborhood>>
            \o (IF listing.point # NoPoint
                THEN get_nearby_neighborhoods(listing.point) ELSE << >>)
    ELSE << >>

RECURSIVE CollectNeighborhoods(_)
CollectNeighborhoods(favs) ==
    IF favs = << >> THEN << >>
    ELSE FavoriteNeighborhoods(Head(favs)) \o CollectNeighborhoods(Tail(favs))

\* [f(x) for x in favs if x.field is truthy]
TruthyField(favs, Field(_)) ==
    LET kept == SelectSeq(favs, LAMBDA l : Truthy(Field(l)))
    IN  [i \in 1..Len(kept) |-> Field(kept[i])]

\* variant: the keys are kept in the order of their last occurrence
RECURSIVE FirstOccurrences_ByLast(_)
FirstOccurrences_ByLast(names) ==
    IF names = << >> THEN << >>
    ELSE LET rest == FirstOccurrences_ByLast(Tail(names))
         IN  IF InList(Head(names), rest) THEN rest ELSE <<Head(names)>> \o rest

\* the keys of neighborhood_counts in insertion (first occurrence) order
RECURSIVE FirstOccurrences(_)
FirstOccurrences(names) ==
    IF names = << >> THEN << >>
    ELSE LET front == FirstOccurrences(SubSeq(names, 1, Len(names) - 1))
             last == names[Len(names)]
         IN  IF InList(last, front) THEN front ELSE Append(front, last)

CountOf(n, names) == Cardinality({i \in 1..Len(names) : names[i] = n})

\* variant: the latest value stands for the average
Mean_Latest(values) == IF values = << >> THEN NoneR ELSE RInt(values[Len(values)])

\* sum(values) / len(values), None for no values
Mean(values) == IF values = << >> THEN NoneR ELSE Rat(SumSeq(values), Len(values))

\* variant: the count is not normalised by the highest count
NeighborhoodWeight_Unnormalised(count, max_count) ==
    RAdd(RInt(1), RMul(RInt(count), Rat(1, 2)))

\* line 115
NeighborhoodWeight(count, max_count) ==
    RAdd(RInt(1), RMul(Rat(count, max_count), Rat(1, 2)))

\* variant: any majority sets the preference
HoaPreference_Majority(hoa_true, hoa_false) ==
    IF hoa_true > hoa_false THEN "True"
    ELSE IF hoa_false > hoa_true THEN "False"
    ELSE "None"

\* lines 143-146
HoaPreference(hoa_true, hoa_false) ==
    IF hoa_true > hoa_false * 2 THEN "True"
    ELSE IF hoa_false > hoa_true * 2 THEN "False"
    ELSE "None"

\* favs: the values of the favorites dict in its iteration order
update_preferences_from_favorites(favs) ==
    IF favs = << >> THEN get_default_preferences
    ELSE
    LET neighborhoods == CollectNeighborhoods(favs)
        prices == TruthyField(favs, LAMBDA l : l.price)
        sqfts == TruthyField(favs, LAMBDA l : l.sqft)
        beds_list == TruthyField(favs, LAMBDA l : l.beds)
        baths_list == TruthyField(favs, LAMBDA l : l.baths)
        hoa_values == SelectSeq(favs, LAMBDA l : l.has_hoa # "None")
        keys == FirstOccurrences(neighborhoods)
        max_count == CHOOSE m \in {CountOf(n, neighborhoods) : n \in Range(keys)} :
                        \A n \in Range(keys) : CountOf(n, neighborhoods) <= m
        sorted_neighborhoods ==
            SortDesc(keys, LAMBDA n : RInt(CountOf(n, neighborhoods)))
        hoa_true == Cardinality({i \in 1..Len(hoa_values) : hoa_values[i].has_hoa = "True"})
        hoa_false == Len(hoa_values) - hoa_true
    IN  [preferred_neighborhoods |->
            IF keys = << >> THEN << >> ELSE SliceTo(sorted_neighborhoods, TopNeighborhoods),
         neighborhood_weights |->
            IF keys = << >> THEN NoWeights
            ELSE [n \in Range(keys) |->
                    NeighborhoodWeight(CountOf(n, neighborhoods), max_count)],
         ideal_price |-> Mean(prices),
         ideal_sqft |-> Mean(sqfts),
         ideal_beds |-> Mean(beds_list),
         ideal_baths |-> Mean(baths_list),
         hoa_preference |->
            IF hoa_values = << >> THEN "None" ELSE HoaPreference(hoa_true, hoa_false),
         price_history |-> LastK(prices, HistoryLength),
         sqft_history |-> LastK(sqfts, HistoryLength),
         beds_history |-> LastK(beds_list, HistoryLength),
         baths_history |-> LastK(baths_list, HistoryLength)]

\* relative difference |value - ideal| / ideal
RelDiff(value, ideal) == RDiv(RAbs(RSub(RInt(value), ideal)), ideal)

\* variant: a difference of exactly 50% already counts as far
PriceFactor_FarFromHalf(price, ideal_price) ==
    LET price_diff_pct == RelDiff(price, ideal_price)
    IN  IF RLess(price_diff_pct, Rat(1, 10)) THEN Rat(12, 10)
        ELSE IF RLess(price_diff_pct, Rat(2, 10)) THEN Rat(11, 10)
        ELSE IF RLeq(Rat(5, 10), price_diff_pct) THEN Rat(9, 10)
        ELSE RInt(1)

\* lines 174-180
PriceFactor(price, ideal_price) ==
    LET price_diff_pct == RelDiff(price, ideal_price)
    IN  IF RLess(price_diff_pct, Rat(1, 10)) THEN Rat(12, 10)
        ELSE IF RLess(price_diff_pct, Rat(2, 10)) THEN Rat(11, 10)
        ELSE IF RLess(Rat(5, 10), price_diff_pct) THEN Rat(9, 10)
        ELSE RInt(1)

\* variant: an optional rational counts as set unless it is None
IsSome_NotNone(r) == r # NoneR

IsSome(r) == r # NoneR /\ r[1] # 0         \* a truthy optional rational

\* ZeroDivisionError at line 174 or line 185: the division is reached with an
\* ideal value of 0
boost_raises(listing, prefs) ==
    \/ Truthy(listing.price) /\ IsSome(prefs.ideal_price) /\ prefs.ideal_price[1] = 0
    \/ Truthy(listing.sqft) /\ IsSome(prefs.ideal_sqft) /\ prefs.ideal_sqft[1] = 0

\* prefs always holds its keys, so "if not prefs" (line 158) never fires
calculate_preference_boost(listing, prefs) ==
    LET nb == IF listing.neighborhood # NoName
                 /\ DOMAIN prefs.neighborhood_weights # {}
              THEN IF listing.neighborhood \in DOMAIN prefs.neighborhood_weights
                   THEN prefs.neighborhood_weights[listing.neighborhood]
                   ELSE RInt(1)
              ELSE RInt(1)
        pr == IF Truthy(listing.price) /\ IsSome(prefs.ideal_price)
              THEN PriceFactor(listing.price, prefs.ideal_price)
              ELSE RInt(1)
        sq == IF Truthy(listing.sqft) /\ IsSome(prefs.ideal_sqft)
                 /\ RLess(RelDiff(listing.sqft, prefs.ideal_sqft), Rat(15, 100))
              THEN Rat(11, 10) ELSE RInt(1)
        be == IF Truthy(listing.beds) /\ IsSome(prefs.ideal_beds)
                 /\ RLeq(RAbs(RSub(RInt(listing.beds), prefs.ideal_beds)), Rat(1, 2))
              THEN Rat(105, 100) ELSE RInt(1)
        ba == IF Truthy(listing.baths) /\ IsSome(prefs.ideal_baths)
                 /\ RLeq(RAbs(RSub(RInt(listing.baths), prefs.ideal_baths)), Rat(1, 2))
              THEN Rat(105, 100) ELSE RInt(1)
        ho == IF listing.has_hoa # "None" /\ prefs.hoa_preference # "None"
              THEN IF listing.has_hoa = prefs.hoa_preference
                   THEN Rat(11, 10) ELSE Rat(9, 10)
              ELSE RInt(1)
    IN  RMul(RMul(RMul(RMul(RMul(nb, pr), sq), be), ba), ho)

\* ------------------------------------------------------------------------
\* main.py: calculate_relevance_score
\* ------------------------------------------------------------------------
Clamp100(r) == RMax(RInt(0), RMin(RInt(100), r))

\* variant: a missing distance scores nothing
distance_score_MissingIsZero(distance) ==
    IF distance # None
    THEN RMax(RInt(0), RSub(RInt(100), RMul(Rat(distance, 20), RInt(100))))
    ELSE RInt(0)

\* lines 114-120
distance_score(distance) ==
    IF distance # None
    THEN RMax(RInt(0), RSub(RInt(100), RMul(Rat(distance, 20), RInt(100))))
    ELSE RInt(50)

\* variant: the division is also reached with equal bounds
PriceGuard_NotBelow(min_price, max_price) == max_price >= min_price

\* line 126
PriceGuard(min_price, max_price) == max_price > min_price

price_score(listing_price, cfg) ==
    LET price == IF Truthy(listing_price) THEN listing_price ELSE 0
        min_price == IF Truthy(cfg.min_price) THEN cfg.min_price ELSE 0
        max_price == IF Truthy(cfg.max_price) THEN cfg.max_price ELSE price * 2
    IN  IF PriceGuard(min_price, max_price)
        THEN Clamp100(RSub(RInt(100),
                RMul(Rat(price - min_price, max_price - min_price), RInt(100))))
        ELSE RInt(50)

\* ZeroDivisionError at line 127: the division is reached with equal bounds
price_score_raises(listing_price, cfg) ==
    LET price == IF Truthy(listing_price) THEN listing_price ELSE 0
        min_price == IF Truthy(cfg.min_price) THEN cfg.min_price ELSE 0
        max_price == IF Truthy(cfg.max_price) THEN cfg.max_price ELSE price * 2
    IN  PriceGuard(min_price, max_price) /\ max_price - min_price = 0

newness_score(days_on_market) ==
    LET days == IF Truthy(days_on_market) THEN days_on_market ELSE 30
    IN  RMax(RInt(0), RSub(RInt(100), RMul(Rat(days, 60), RInt(100))))

base_score(listing, cfg) ==
    RAdd(RAdd(RMul(Rat(4, 10), distance_score(listing.distance)),
              RMul(Rat(3, 10), price_score(listing.price, cfg))),
         RMul(Rat(3, 10), newness_score(listing.days_on_market)))

calculate_relevance_score(listing, cfg, prefs) ==
    RMul(base_score(listing, cfg), calculate_preference_boost(listing, prefs))

\* whether the call raises instead of returning a score
relevance_score_raises(listing, cfg, prefs) ==
    price_score_raises(listing.price, cfg) \/ boost_raises(listing, prefs)

\* ------------------------------------------------------------------------
\* learning.py: parse_feedback.  Texts are strings; an update set has every
\* key, an absent key being an empty list, "None" (HOA) or None (numbers).
\* Amounts are in dollars, as the text gives them.  \s is the space.
\* float() is exact here: int(float(s) * m) is the truncated product.
\* ------------------------------------------------------------------------
Updates(add, remove, hoa) ==
    [add_neighborhoods |-> add, remove_neighborhoods |-> remove, hoa_preference |-> hoa,
     max_price |-> None, min_price |-> None, min_beds |-> None, min_baths |-> None]

NoUpdates == Updates(<< >>, << >>, "None")

UpperCase == "ABCDEFGHIJKLMNOPQRSTUVWXYZ"
LowerCase == "abcdefghijklmnopqrstuvwxyz"
Digits == "0123456789"
AmountChars == "0123456789,."

CharAt(text, i) == SubSeq(text, i, i)
IndexIn(alphabet, c) ==
    IF \E k \in 1..Len(alphabet) : CharAt(alphabet, k) = c
    THEN CHOOSE k \in 1..Len(alphabet) : CharAt(alphabet, k) = c
    ELSE 0
LowerChar(c) == IF IndexIn(UpperCase, c) # 0 THEN CharAt(LowerCase, IndexIn(UpperCase, c)) ELSE c
UpperChar(c) == IF IndexIn(LowerCase, c) # 0 THEN CharAt(UpperCase, IndexIn(LowerCase, c)) ELSE c
IsLetter(c) == IndexIn(UpperCase, c) # 0 \/ IndexIn(LowerCase, c) # 0
IsDigit(c) == IndexIn(Digits, c) # 0

\* str.lower()
RECURSIVE lower(_)
lower(text) ==
    IF text = "" THEN ""
    ELSE LowerChar(CharAt(text, 1)) \o lower(SubSeq(text, 2, Len(text)))

\* str.title(): a letter is upper case exactly when no letter precedes it
RECURSIVE TitleFrom(_, _)
TitleFrom(text, i) ==
    IF i > Len(text) THEN ""
    ELSE (IF i = 1 \/ ~IsLetter(CharAt(text, i - 1))
          THEN UpperChar(CharAt(text, i)) ELSE LowerChar(CharAt(text, i)))
            \o TitleFrom(text, i + 1)
title(text) == TitleFrom(text, 1)

\* pat in text
Contains(text, pat) ==
    \E i \in 1..(Len(text) - Len(pat) + 1) : SubSeq(text, i, i + Len(pat) - 1) = pat
StartsAt(text, i, pat) ==
    i + Len(pat) - 1 <= Len(text) /\ SubSeq(text, i, i + Len(pat) - 1) = pat

\* str.replace(c, "")
RECURSIVE RemoveChar(_, _)
RemoveChar(text, c) ==
    IF text = "" THEN ""
    ELSE (IF CharAt(text, 1) = c THEN "" ELSE CharAt(text, 1))
            \o RemoveChar(SubSeq(text, 2, Len(text)), c)

\* lines 225-245, in dict order
neighborhood_variants ==
    << [name |-> "tarrytown", variants |-> <<"tarrytown", "tarry town">>],
       [name |-> "mueller", variants |-> <<"mueller">>],
       [name |-> "hyde park", variants |-> <<"hyde park">>],
       [name |-> "east austin", variants |-> <<"east austin">>],
       [name |-> "south congress", variants |-> <<"south congress">>],
       [name |-> "zilker", variants |-> <<"zilker">>],
       [name |-> "barton hills", variants |-> <<"barton hills">>],
       [name |-> "travis heights", variants |-> <<"travis heights">>],
       [name |-> "clarksville", variants |-> <<"clarksville">>],
       [name |-> "rosedale", variants |-> <<"rosedale">>],
       [name |-> "crestview", variants |-> <<"crestview">>],
       [name |-> "allandale", variants |-> <<"allandale">>],
       [name |-> "downtown", variants |-> <<"downtown">>],
       [name |-> "domain", variants |-> <<"domain">>],
       [name |-> "pflugerville", variants |-> <<"pflugerville">>],
       [name |-> "round rock", variants |-> <<"round rock">>],
       [name |-> "cedar park", variants |-> <<"cedar park">>],
       [name |-> "buda", variants |-> <<"buda">>],
       [name |-> "kyle", variants |-> <<"kyle">>] >>

\* lines 247-256: the neighborhoods the text names, by their titled names
MentionedNeighborhoods(text) ==
    LET named == SelectSeq(neighborhood_variants,
                    LAMBDA e : \E k \in 1..Len(e.variants) : Contains(text, e.variants[k]))
    IN  [i \in 1..Len(named) |-> title(named[i].name)]

\* line 249 and line 253
AddSentiment(text) ==
    Contains(text, "more") \/ Contains(text, "like") \/ Contains(text, "prefer")
RemoveSentiment(text) ==
    Contains(text, "less") \/ Contains(text, "avoid") \/ Contains(text, "no ")

\* \s* from position i: the first position that holds no space
RECURSIVE SkipSpaces(_, _)
SkipSpaces(text, i) ==
    IF i <= Len(text) /\ CharAt(text, i) = " " THEN SkipSpaces(text, i + 1) ELSE i

\* the last position of the longest run of characters of the alphabet that
\* starts at i (i - 1 when there is none)
RECURSIVE RunEnd(_, _, _)
RunEnd(text, i, alphabet) ==
    IF i <= Len(text) /\ IndexIn(alphabet, CharAt(text, i)) # 0
    THEN RunEnd(text, i + 1, alphabet) ELSE i - 1

\* lines 260 and 271: keyword \s* (?:price)? \s* \$ ([\d,.]+) \s* ([mk])?
max_keywords == <<"max", "maximum", "under", "below", "up to">>
min_keywords == <<"min", "minimum", "above", "over", "at least">>

\* where the amount starts when keyword kw matches at i (0 when it does not)
AmountStart(text, i, kw) ==
    IF ~StartsAt(text, i, kw) THEN 0
    ELSE LET a == SkipSpaces(text, i + Len(kw))
             b == IF StartsAt(text, a, "price") THEN a + Len("price") ELSE a
             d == SkipSpaces(text, b)
         IN  IF StartsAt(text, d, "$") /\ RunEnd(text, d + 1, AmountChars) >= d + 1
             THEN d + 1 ELSE 0

\* re.search: the match at the leftmost position where some alternative
\* matches
\* group 1 and group 2 of the match whose amount starts at from
MatchGroups(text, from) ==
    LET to == RunEnd(text, from, AmountChars)
        m == SkipSpaces(text, to + 1)
    IN  [matched |-> TRUE,
         amount |-> SubSeq(text, from, to),
         suffix |-> IF StartsAt(text, m, "m") \/ StartsAt(text, m, "k")
                    THEN CharAt(text, m) ELSE ""]

\* the match at i: the first alternative that matches there
MatchAt(text, i, keywords) ==
    MatchGroups(text,
        AmountStart(text, i,
            keywords[CHOOSE c \in 1..Len(keywords) :
                        /\ AmountStart(text, i, keywords[c]) # 0
                        /\ \A b \in 1..(c - 1) : AmountStart(text, i, keywords[b]) = 0]))

price_search(text, keywords) ==
    LET Hits == {i \in 1..Len(text) :
                    \E k \in 1..Len(keywords) : AmountStart(text, i, keywords[k]) # 0}
    IN  IF Hits = {} THEN [matched |-> FALSE, amount |-> "", suffix |-> ""]
        ELSE MatchAt(text, CHOOSE h \in Hits : \A g \in Hits : h <= g, keywords)

\* int() of a string of digits
RECURSIVE ToInt(_)
ToInt(digits) ==
    IF digits = "" THEN 0
    ELSE ToInt(SubSeq(digits, 1, Len(digits) - 1)) * 10
            + (IndexIn(Digits, CharAt(digits, Len(digits))) - 1)

RECURSIVE Pow10(_)
Pow10(k) == IF k = 0 THEN 1 ELSE 10 * Pow10(k - 1)

\* float(s) accepts a string of digits and dots when it has a digit and at
\* most one dot, and raises ValueError otherwise
FloatAccepts(s) ==
    /\ \E i \in 1..Len(s) : IsDigit(CharAt(s, i))
    /\ Cardinality({i \in 1..Len(s) : CharAt(s, i) = "."}) <= 1

\* int(float(s) * multiplier)
IntOfProduct(s, multiplier) ==
    LET dot == IF Contains(s, ".") THEN CHOOSE i \in 1..Len(s) : CharAt(s, i) = "."
               ELSE Len(s) + 1
        whole == SubSeq(s, 1, dot - 1)
        frac == SubSeq(s, dot + 1, Len(s))
    IN  ((ToInt(whole) * Pow10(Len(frac)) + ToInt(frac)) * multiplier) \div Pow10(Len(frac))

\* lines 261-269 and 272-280: the amount of a matched price phrase
Multiplier(suffix) == IF suffix = "m" THEN 1000000 ELSE IF suffix = "k" THEN 1000 ELSE 1

MatchedPrice(match) ==
    LET price_str == RemoveChar(match.amount, ",")
    IN  IF ~match.matched THEN [raises |-> FALSE, value |-> None]
        ELSE IF ~FloatAccepts(price_str) THEN [raises |-> TRUE, value |-> None]
        ELSE [raises |-> FALSE, value |-> IntOfProduct(price_str, Multiplier(match.suffix))]

price_update(text, keywords) == MatchedPrice(price_search(text, keywords))

\* lines 283-286
hoa_update(text) ==
    IF Contains(text, "no hoa") \/ Contains(text, "without hoa") \/ Contains(text, "hate hoa")
    THEN "False"
    ELSE IF Contains(text, "with hoa") \/ Contains(text, "prefer hoa")
            \/ Contains(text, "like hoa")
    THEN "True"
    ELSE "None"

\* lines 289-296: (\d+) \+? \s* keyword, leftmost match
bed_keywords == <<"bed", "bedroom", "br", "bd">>
bath_keywords == <<"bath", "bathroom", "ba">>

CountMatchesAt(text, i, keywords) ==
    /\ IsDigit(CharAt(text, i))
    /\ LET e == RunEnd(text, i, Digits)
           p == IF StartsAt(text, e + 1, "+") THEN e + 2 ELSE e + 1
           q == SkipSpaces(text, p)
       IN  \E k \in 1..Len(keywords) : StartsAt(text, q, keywords[k])

count_update(text, keywords) ==
    LET Hits == {i \in 1..Len(text) : CountMatchesAt(text, i, keywords)}
    IN  IF Hits = {} THEN None
        ELSE LET i == CHOOSE h \in Hits : \A g \in Hits : h <= g
             IN  ToInt(SubSeq(text, i, RunEnd(text, i, Digits)))

\* lines 247-298 on the lowered text, given what the two price phrases gave:
\* the exception raised ("None" when the call returns) and the update set
\* returned (none when it raises)
ParsedText(text, max_price, min_price) ==
    LET named == MentionedNeighborhoods(text)
    IN  IF max_price.raises \/ min_price.raises
        THEN [raised |-> "ValueError", updates |-> NoUpdates]
        ELSE [raised |-> "None",
              updates |->
                [add_neighborhoods |-> IF AddSentiment(text) THEN named ELSE << >>,
                 remove_neighborhoods |->
                    IF ~AddSentiment(text) /\ RemoveSentiment(text) THEN named ELSE << >>,
                 hoa_preference |-> hoa_update(text),
                 max_price |-> max_price.value,
                 min_price |-> min_price.value,
                 min_beds |-> count_update(text, bed_keywords),
                 min_baths |-> count_update(text, bath_keywords)]]

\* lines 215-298
parse_feedback(feedback_text_in) ==
    ParsedText(lower(feedback_text_in),
               price_update(lower(feedback_text_in), max_keywords),
               price_update(lower(feedback_text_in), min_keywords))

\* ------------------------------------------------------------------------
\* Program constants and model bounds
\* ------------------------------------------------------------------------
MAX_LISTINGS == 5
UnderQuota == 4
OverQuota == 1
Threshold == 1000            \* $1,000,000 in thousands of dollars

MaxCandidates == 7           \* length of a candidate list drawn for the selector
MaxFavorites == 3            \* length of a favorites list drawn for the learner

\* ------------------------------------------------------------------------
\* State
\* ------------------------------------------------------------------------
VARIABLES
    favoritesStore,     \* data/favorites.json: the dict's values, in order
    dismissedStore,     \* data/dismissed.json
    pendingStore,       \* data/pending.json
    preferencesStore,   \* data/preferences.json (absent file = default)
    pc,                 \* where main() stands
    TESTING_MODE,       \* the module flag the run was started with
    favorites, dismissed, pending, preferences,   \* main()'s locals
    filtered, new_listings, top_listings,
    exit_code,          \* what the run returns (None until it does)
    \* observations of the current run (not program state)
    stores_at_start,    \* the three id stores and the profile as the run found them
    reads, writes,      \* per store: loads and saves in this run
    quota_selection,    \* top_listings after quota and backfill (line 314)
    swapped,            \* whether lines 331-332 ran
    delivered,          \* zpids of the shortlist an email delivered
    \* arguments and results of the functions called on their own
    config,             \* the config dict main() passes to the scorer
    feedback_text,      \* the text handed to parse_feedback
    feedback_updates,   \* what parse_feedback returned
    outcome,            \* of the last call: "NoCall" before any; "Returned" or
                        \* the name of the exception that escaped parse_feedback;
                        \* "Applied" when apply_feedback_updates returned
    feedback_summary,   \* what apply_feedback_updates returned
    \* the world outside the program
    market              \* the catalog numbers the listing source returns when
                        \* its content does not change between runs

vars == <<favoritesStore, dismissedStore, pendingStore, preferencesStore, pc,
          TESTING_MODE, favorites, dismissed, pending, preferences, filtered,
          new_listings, top_listings, exit_code,
          stores_at_start, reads, writes, quota_selection, swapped, delivered,
          config, feedback_text, feedback_updates, outcome, feedback_summary,
          market>>

callVars == <<config, feedback_text, feedback_updates, outcome, feedback_summary,
              market>>
storeVars == <<favoritesStore, dismissedStore, pendingStore, preferencesStore>>
localVars == <<favorites, dismissed, pending, preferences, filtered,
               new_listings, top_listings>>
obsVars == <<stores_at_start, reads, writes, quota_selection, swapped, delivered>>

StoreNames == {"favorites", "dismissed", "pending", "preferences"}
NoAccess == [s \in StoreNames |-> 0]
Count(counter, names) == [s \in StoreNames |-> IF s \in names THEN counter[s] + 1 ELSE counter[s]]
Snapshot == [favorites |-> favoritesStore, dismissed |-> dismissedStore,
             pending |-> pendingStore, preferences |-> preferencesStore]
NoSnapshot == [favorites |-> << >>, dismissed |-> << >>, pending |-> << >>,
               preferences |-> get_default_preferences]

Zpids(listings) == [i \in 1..Len(listings) |-> listings[i].zpid]

EmptyLocals ==
    /\ favorites = << >> /\ dismissed = << >> /\ pending = << >>
    /\ preferences = get_default_preferences
    /\ filtered = << >> /\ new_listings = << >> /\ top_listings = << >>

EmptyObservations ==
    /\ stores_at_start = NoSnapshot
    /\ reads = NoAccess /\ writes = NoAccess
    /\ quota_selection = << >> /\ swapped = FALSE /\ delivered = {}

NoSummary == [changes |-> << >>, config_changes |-> << >>]

\* No call of parse_feedback yet; the scorer is called with config.yaml
NoCalls ==
    /\ config = Config
    /\ feedback_text = "" /\ feedback_updates = NoUpdates /\ outcome = "NoCall"
    /\ feedback_summary = NoSummary
    /\ market = << >>

\* An empty data directory, before the first run
Init ==
    /\ favoritesStore = << >> /\ dismissedStore = << >> /\ pendingStore = << >>
    /\ preferencesStore = get_default_preferences
    /\ pc = "idle"
    /\ TESTING_MODE = FALSE
    /\ EmptyLocals
    /\ exit_code = None
    /\ EmptyObservations
    /\ NoCalls

\* ------------------------------------------------------------------------
\* main.py lines 276-336: eligibility, scoring, selection
\* ------------------------------------------------------------------------
FavoriteZpids(favs) == Range(Zpids(favs))

\* variant: the dismissed identifiers are never excluded
EligibleListings_IgnoreDismissed(listings, favs, dismissedIds, testing) ==
    SelectSeq(listings,
        LAMBDA l : l.zpid # 0 /\ l.zpid \notin FavoriteZpids(favs))

\* lines 279-293
EligibleListings(listings, favs, dismissedIds, testing) ==
    SelectSeq(listings,
        LAMBDA l : /\ l.zpid # 0
                   /\ l.zpid \notin FavoriteZpids(favs)
                   /\ (testing \/ l.zpid \notin Range(dismissedIds)))

\* lines 296-297
ScoreAll(listings, cfg, prefs) ==
    [i \in 1..Len(listings) |->
        [listings[i] EXCEPT
            !.relevance_score = calculate_relevance_score(listings[i], cfg, prefs)]]

\* x.get("relevance_score") or 0   and   x.get("price") or 0
ScoreKey(l) == IF l.relevance_score = NoneR THEN RInt(0) ELSE l.relevance_score
PriceOrZero(l) == IF Truthy(l.price) THEN l.price ELSE 0
PriceKey(l) == RInt(PriceOrZero(l))

\* lines 300-305
under_1m(listings) ==
    SortDesc(SelectSeq(listings, LAMBDA l : PriceOrZero(l) < Threshold), ScoreKey)
over_1m(listings) ==
    SortDesc(SelectSeq(listings, LAMBDA l : PriceOrZero(l) >= Threshold), ScoreKey)

\* lines 308-310
QuotaPick(listings) ==
    SliceTo(under_1m(listings), UnderQuota) \o SliceTo(over_1m(listings), OverQuota)

\* variant: the free slots are filled from the tail of the leftovers
Backfill_FromTail(listings, top) ==
    LET remaining == MAX_LISTINGS - Len(top)
        leftovers == SliceFrom(under_1m(listings), UnderQuota)
                        \o SliceFrom(over_1m(listings), OverQuota)
        extras == SelectSeq(leftovers, LAMBDA l : ~InList(l, top))
    IN  IF remaining > 0 THEN top \o LastK(extras, remaining) ELSE top

\* lines 311-314
Backfill(listings, top) ==
    LET remaining == MAX_LISTINGS - Len(top)
        leftovers == SliceFrom(under_1m(listings), UnderQuota)
                        \o SliceFrom(over_1m(listings), OverQuota)
        extras == SelectSeq(leftovers, LAMBDA l : ~InList(l, top))
    IN  IF remaining > 0 THEN top \o SliceTo(extras, remaining) ELSE top

InPreferred(l, preferred) == InList(l.neighborhood, preferred)

\* lines 324-327
PreferredCandidates(listings, top, preferred) ==
    SelectSeq(listings, LAMBDA l : InPreferred(l, preferred) /\ ~InList(l, top))

\* lines 318-328: whether the swap of lines 329-332 runs
SwapNeeded(listings, top, preferred) ==
    /\ preferred # << >>
    /\ ~\E i \in 1..Len(top) : InPreferred(top[i], preferred)
    /\ PreferredCandidates(listings, top, preferred) # << >>

\* IndexError at line 332: the swap runs on an empty selection
SwapRaises(listings, top, preferred) ==
    SwapNeeded(listings, top, preferred) /\ top = << >>

\* variant: the highest-scored member is swapped out
SwapLowest_ReplacesHighest(listings, top, preferred) ==
    LET preferred_candidates ==
            SortDesc(PreferredCandidates(listings, top, preferred), ScoreKey)
        descending == SortDesc(top, ScoreKey)
    IN  [descending EXCEPT ![1] = preferred_candidates[1]]

\* lines 329-332
SwapLowest(listings, top, preferred) ==
    LET preferred_candidates ==
            SortDesc(PreferredCandidates(listings, top, preferred), ScoreKey)
        ascending == SortAsc(top, ScoreKey)
    IN  [ascending EXCEPT ![1] = preferred_candidates[1]]

\* variant: the selection is never touched
PreferredGuarantee_Never(listings, top, preferred) == top

\* lines 317-333
PreferredGuarantee(listings, top, preferred) ==
    IF SwapNeeded(listings, top, preferred)
    THEN SwapLowest(listings, top, preferred)
    ELSE top

\* line 336
DisplayOrder(top) == SortDesc(top, PriceKey)

\* ------------------------------------------------------------------------
\* learning.py: apply_feedback_updates.  An update set holds the lists of
\* neighborhoods to add and to remove (an absent key is an empty list) and the
\* HOA preference ("None" when the key is absent).
\* ------------------------------------------------------------------------
SetWeight(weights, n, w) ==
    [m \in DOMAIN weights \cup {n} |-> IF m = n THEN w ELSE weights[m]]

AddNeighborhood(prefs, n) ==
    IF ~InList(n, prefs.preferred_neighborhoods)
    THEN [prefs EXCEPT
            !.preferred_neighborhoods = Append(@, n),
            !.neighborhood_weights = SetWeight(@, n, Rat(15, 10))]
    ELSE prefs

RemoveNeighborhood(prefs, n) ==
    LET removed == IF InList(n, prefs.preferred_neighborhoods)
                   THEN [prefs EXCEPT !.preferred_neighborhoods = RemoveFirst(@, n)]
                   ELSE prefs
    IN  IF n \in DOMAIN removed.neighborhood_weights
        THEN [removed EXCEPT !.neighborhood_weights = SetWeight(@, n, Rat(5, 10))]
        ELSE removed

RECURSIVE AddNeighborhoods(_, _)
AddNeighborhoods(prefs, names) ==
    IF names = << >> THEN prefs
    ELSE AddNeighborhoods(AddNeighborhood(prefs, Head(names)), Tail(names))

RECURSIVE RemoveNeighborhoods(_, _)
RemoveNeighborhoods(prefs, names) ==
    IF names = << >> THEN prefs
    ELSE RemoveNeighborhoods(RemoveNeighborhood(prefs, Head(names)), Tail(names))

\* variant: the HOA preference is overwritten also when the update set has none
apply_feedback_updates_AlwaysSetsHoa(prefs, updates) ==
    LET added == AddNeighborhoods(prefs, updates.add_neighborhoods)
        removed == RemoveNeighborhoods(added, updates.remove_neighborhoods)
    IN  [removed EXCEPT !.hoa_preference = updates.hoa_preference]

\* lines 308-343
apply_feedback_updates(prefs, updates) ==
    LET added == AddNeighborhoods(prefs, updates.add_neighborhoods)
        removed == RemoveNeighborhoods(added, updates.remove_neighborhoods)
    IN  IF updates.hoa_preference # "None"
        THEN [removed EXCEPT !.hoa_preference = updates.hoa_preference]
        ELSE removed

\* lines 308-359: what the call returns.  The returned text is the lines of
\* changes, in order, followed by one line "Config updates needed: ..." that
\* joins config_changes when there are any ("No changes detected from
\* feedback" when there is no line at all).
RECURSIVE AddChanges(_, _)
AddChanges(prefs, names) ==
    IF names = << >> THEN << >>
    ELSE (IF ~InList(Head(names), prefs.preferred_neighborhoods)
          THEN << <<"Added to preferred neighborhoods", Head(names)>> >> ELSE << >>)
            \o AddChanges(AddNeighborhood(prefs, Head(names)), Tail(names))

RECURSIVE RemoveChanges(_, _)
RemoveChanges(prefs, names) ==
    IF names = << >> THEN << >>
    ELSE (IF InList(Head(names), prefs.preferred_neighborhoods)
          THEN << <<"Removed from preferred neighborhoods", Head(names)>> >> ELSE << >>)
            \o (IF Head(names) \in DOMAIN prefs.neighborhood_weights
                THEN << <<"Reduced weight for", Head(names)>> >> ELSE << >>)
            \o RemoveChanges(RemoveNeighborhood(prefs, Head(names)), Tail(names))

\* lines 346-354
config_changes(updates) ==
    (IF updates.max_price # None THEN << <<"max_price", updates.max_price>> >> ELSE << >>)
    \o (IF updates.min_price # None THEN << <<"min_price", updates.min_price>> >> ELSE << >>)
    \o (IF updates.min_beds # None THEN << <<"min_beds", updates.min_beds>> >> ELSE << >>)
    \o (IF updates.min_baths # None THEN << <<"min_baths", updates.min_baths>> >> ELSE << >>)

feedback_changes(prefs, updates) ==
    [changes |->
        AddChanges(prefs, updates.add_neighborhoods)
        \o RemoveChanges(AddNeighborhoods(prefs, updates.add_neighborhoods),
                         updates.remove_neighborhoods)
        \o (IF updates.hoa_preference = "True"
                THEN << <<"Set HOA preference to", "with HOA">> >>
            ELSE IF updates.hoa_preference = "False"
                THEN << <<"Set HOA preference to", "without HOA">> >>
            ELSE << >>),
     config_changes |-> config_changes(updates)]

\* the update sets the buyer's feedback is drawn from
FeedbackUpdates ==
    { Updates(<<"Tarrytown">>, << >>, "False"),
      Updates(<< >>, <<"Zilker", "Mueller">>, "None") }

\* ------------------------------------------------------------------------
\* What the listing source returns: lists of catalog numbers
\* ------------------------------------------------------------------------
Responses ==
    { <<1, 2, 3, 4, 5, 6, 7, 8, 9, 10, 11, 12>>,
      <<8, 9, 1, 2, 7>>,
      <<3, 3, 6>> }

Parsed(response) == [i \in 1..Len(response) |-> Catalog[response[i]]]

\* ------------------------------------------------------------------------
\* main(): one action per stretch of the function between store accesses
\* ------------------------------------------------------------------------
\* lines 184-221.  The early returns of lines 193-212 happen before any store
\* is touched and leave no trace: they are not runs of the model.
LoadIn(modes) ==
    /\ pc = "idle"
    /\ \E mode \in modes : TESTING_MODE' = mode
    /\ favorites' = favoritesStore
    /\ dismissed' = dismissedStore
    /\ pending' = pendingStore
    /\ stores_at_start' = Snapshot
    /\ reads' = Count(NoAccess, {"favorites", "dismissed", "pending"})
    /\ writes' = NoAccess
    /\ quota_selection' = << >> /\ swapped' = FALSE /\ delivered' = {}
    /\ pc' = "loaded"
    /\ UNCHANGED <<callVars, storeVars, preferences, filtered, new_listings, top_listings,
                   exit_code>>

Load == LoadIn(BOOLEAN)

\* variant: the persisted profile is used even when there are favorites
UpdatePreferences_KeepsStored ==
    /\ pc = "loaded"
    /\ preferences' = preferencesStore
    /\ reads' = Count(reads, {"preferences"})
    /\ pc' = "dismissal"
    /\ UNCHANGED <<callVars, storeVars, writes, TESTING_MODE,
                   favorites, dismissed, pending, filtered, new_listings, top_listings,
                   exit_code, stores_at_start, quota_selection, swapped, delivered>>

\* variant: the profile is saved back also when it was only loaded
UpdatePreferences_AlwaysSaves ==
    /\ pc = "loaded"
    /\ IF favorites # << >>
       THEN /\ preferences' = update_preferences_from_favorites(favorites)
            /\ UNCHANGED reads
       ELSE /\ preferences' = preferencesStore
            /\ reads' = Count(reads, {"preferences"})
    /\ preferencesStore' = preferences'
    /\ writes' = Count(writes, {"preferences"})
    /\ pc' = "dismissal"
    /\ UNCHANGED <<callVars, favoritesStore, dismissedStore, pendingStore, TESTING_MODE,
                   favorites, dismissed, pending, filtered, new_listings, top_listings,
                   exit_code, stores_at_start, quota_selection,
                   swapped, delivered>>

\* lines 223-230
UpdatePreferences ==
    /\ pc = "loaded"
    /\ IF favorites # << >>
       THEN /\ preferences' = update_preferences_from_favorites(favorites)
            /\ preferencesStore' = preferences'
            /\ writes' = Count(writes, {"preferences"})
            /\ UNCHANGED reads
       ELSE /\ preferences' = preferencesStore
            /\ reads' = Count(reads, {"preferences"})
            /\ UNCHANGED <<preferencesStore, writes>>
    /\ pc' = "dismissal"
    /\ UNCHANGED <<callVars, favoritesStore, dismissedStore, pendingStore, TESTING_MODE,
                   favorites, dismissed, pending, filtered, new_listings, top_listings,
                   exit_code, stores_at_start, quota_selection,
                   swapped, delivered>>

\* variant: pending is cleared without being added to dismissed
MovePendingToDismissed_ClearsOnly ==
    /\ pc = "dismissal"
    /\ IF ~TESTING_MODE /\ pending # << >>
       THEN /\ dismissedStore' = dismissed
            /\ pendingStore' = << >>
            /\ writes' = Count(Count(writes, {"dismissed"}), {"pending"})
       ELSE UNCHANGED <<dismissedStore, pendingStore, writes>>
    /\ pc' = "search"
    /\ UNCHANGED <<callVars, favoritesStore, preferencesStore, TESTING_MODE, favorites, dismissed,
                   pending, preferences, filtered, new_listings, top_listings, exit_code,
                   stores_at_start, reads, quota_selection, swapped, delivered>>

\* lines 232-239
MovePendingToDismissed ==
    /\ pc = "dismissal"
    /\ IF ~TESTING_MODE /\ pending # << >>
       THEN /\ dismissed' = dismissed \o pending
            /\ dismissedStore' = dismissed'
            /\ pendingStore' = << >>
            /\ writes' = Count(Count(writes, {"dismissed"}), {"pending"})
       ELSE UNCHANGED <<dismissed, dismissedStore, pendingStore, writes>>
    /\ pc' = "search"
    /\ UNCHANGED <<callVars, favoritesStore, preferencesStore, TESTING_MODE, favorites, pending,
                   preferences, filtered, new_listings, top_listings, exit_code,
                   stores_at_start, reads, quota_selection, swapped, delivered>>

ClearLocals ==
    /\ favorites' = << >> /\ dismissed' = << >> /\ pending' = << >>
    /\ preferences' = get_default_preferences
    /\ filtered' = << >> /\ new_listings' = << >> /\ top_listings' = << >>

ClearObservations ==
    /\ stores_at_start' = NoSnapshot
    /\ reads' = NoAccess /\ writes' = NoAccess
    /\ quota_selection' = << >> /\ swapped' = FALSE /\ delivered' = {}

\* lines 247-251: the search raises and the run returns 1
SearchFails ==
    /\ pc = "search"
    /\ exit_code' = 1
    /\ pc' = "failed"
    /\ UNCHANGED <<callVars, storeVars, TESTING_MODE, localVars, obsVars>>

\* lines 245-293: search, parse, filter, enrich, drop favorites and dismissed
SearchIn(responses) ==
    /\ pc = "search"
    /\ \E response \in responses :
        LET enriched == LET kept == filter_listings(Parsed(response))
                        IN  [i \in 1..Len(kept) |-> enrich_listing(kept[i])]
        IN  /\ filtered' = enriched
            /\ new_listings' = EligibleListings(enriched, favorites, dismissed, TESTING_MODE)
    /\ pc' = "candidates"
    /\ UNCHANGED <<callVars, storeVars, TESTING_MODE, favorites, dismissed, pending, preferences,
                   top_listings, exit_code, obsVars>>

Search == SearchIn(Responses)

\* lines 295-297.  An exception of the scorer is caught nowhere: it ends
\* main() at pc "raised" (the process exits with status 1).
Score ==
    /\ pc = "candidates"
    /\ IF \E i \in 1..Len(new_listings) :
            relevance_score_raises(new_listings[i], config, preferences)
       THEN /\ pc' = "raised" /\ exit_code' = 1
            /\ UNCHANGED new_listings
       ELSE /\ new_listings' = ScoreAll(new_listings, config, preferences)
            /\ pc' = "scored"
            /\ UNCHANGED exit_code
    /\ UNCHANGED <<callVars, storeVars, TESTING_MODE, favorites, dismissed, pending, preferences,
                   filtered, top_listings, obsVars>>

\* lines 299-336; an exception of line 332 ends main() as well
Select ==
    /\ pc = "scored"
    /\ LET picked == Backfill(new_listings, QuotaPick(new_listings))
           preferred == preferences.preferred_neighborhoods
       IN  IF SwapRaises(new_listings, picked, preferred)
           THEN /\ pc' = "raised" /\ exit_code' = 1
                /\ UNCHANGED <<quota_selection, swapped, top_listings>>
           ELSE /\ quota_selection' = picked
                /\ swapped' = SwapNeeded(new_listings, picked, preferred)
                /\ top_listings' =
                      DisplayOrder(PreferredGuarantee(new_listings, picked, preferred))
                /\ pc' = "selected"
                /\ UNCHANGED exit_code
    /\ UNCHANGED <<callVars, storeVars, TESTING_MODE, favorites, dismissed, pending, preferences,
                   filtered, new_listings,
                   stores_at_start, reads, writes, delivered>>

\* variant: the first listing of the selection is not recorded
NewPending_WithoutFirst(top) == SliceFrom(Zpids(SelectSeq(top, LAMBDA l : l.zpid # 0)), 1)

\* line 346
NewPending(top) == Zpids(SelectSeq(top, LAMBDA l : l.zpid # 0))

\* variant: the selection is saved as pending in testing mode too
SavePending_Always ==
    /\ pc = "selected"
    /\ pendingStore' = NewPending(top_listings)
    /\ writes' = Count(writes, {"pending"})
    /\ pc' = "email"
    /\ UNCHANGED <<callVars, favoritesStore, dismissedStore, preferencesStore, TESTING_MODE,
                   localVars, exit_code, stores_at_start, reads,
                   quota_selection, swapped, delivered>>

\* lines 344-347
SavePending ==
    /\ pc = "selected"
    /\ IF ~TESTING_MODE
       THEN /\ pendingStore' = NewPending(top_listings)
            /\ writes' = Count(writes, {"pending"})
       ELSE UNCHANGED <<pendingStore, writes>>
    /\ pc' = "email"
    /\ UNCHANGED <<callVars, favoritesStore, dismissedStore, preferencesStore, TESTING_MODE,
                   localVars, exit_code, stores_at_start, reads,
                   quota_selection, swapped, delivered>>

\* lines 349-388: all_success is whether every recipient's send succeeded;
\* some_success whether at least one did
SendEmail ==
    /\ pc = "email"
    /\ \E all_success \in BOOLEAN, some_success \in BOOLEAN :
        /\ all_success => some_success
        /\ delivered' = IF some_success THEN Range(Zpids(top_listings)) ELSE {}
        /\ exit_code' = IF all_success THEN 0 ELSE 1
    /\ pc' = "done"
    /\ UNCHANGED <<callVars, storeVars, TESTING_MODE, localVars,
                   stores_at_start, reads, writes, quota_selection, swapped>>

\* main() returns: the process ends and only the stores remain
Return ==
    /\ pc \in {"done", "failed", "raised"}
    /\ pc' = "idle"
    /\ ClearLocals /\ ClearObservations
    /\ exit_code' = None
    /\ TESTING_MODE' = FALSE
    /\ UNCHANGED <<callVars, storeVars>>

\* ------------------------------------------------------------------------
\* Between runs
\* ------------------------------------------------------------------------
\* the listings (by catalog number) the buyer favorites once they are shown
Liked == {1, 9}

\* The buyer follows the favorite link of a listing of the last shortlist:
\* the listing, as it was shown, is added to favorites.json
Favorite ==
    /\ pc = "idle"
    /\ \E k \in Liked :
        /\ Catalog[k].zpid \in Range(pendingStore)
        /\ Catalog[k].zpid \notin FavoriteZpids(favoritesStore)
        /\ favoritesStore' = Append(favoritesStore, enrich_listing(Catalog[k]))
    /\ UNCHANGED <<callVars, dismissedStore, pendingStore, preferencesStore, pc, TESTING_MODE,
                   localVars, exit_code, obsVars>>

\* learning.py apply_feedback_updates: load, update, save
FeedbackIn(updateSets) ==
    /\ pc = "idle"
    /\ \E updates \in updateSets :
        preferencesStore' = apply_feedback_updates(preferencesStore, updates)
    /\ UNCHANGED <<callVars, favoritesStore, dismissedStore, pendingStore, pc, TESTING_MODE,
                   localVars, exit_code, obsVars>>

ApplyFeedback == FeedbackIn(FeedbackUpdates)

Next ==
    \/ Load \/ UpdatePreferences \/ MovePendingToDismissed
    \/ SearchFails \/ Search \/ Score \/ Select \/ SavePending \/ SendEmail \/ Return
    \/ Favorite \/ ApplyFeedback

Spec == Init /\ [][Next]_vars

\* ------------------------------------------------------------------------
\* Normal-mode runs only (TESTING_MODE = False in every run), one after the
\* other, with any response to each, runs that abort at the search, and the
\* buyer favoriting shown listings between runs.
\* ------------------------------------------------------------------------
LoadNormal == LoadIn({FALSE})

NextNormal ==
    \/ LoadNormal \/ UpdatePreferences \/ MovePendingToDismissed
    \/ SearchFails \/ Search \/ Score \/ Select \/ SavePending \/ SendEmail \/ Return
    \/ Favorite

SpecNormal == Init /\ [][NextNormal]_vars

\* ------------------------------------------------------------------------
\* Normal-mode runs over a source whose content does not change and a
\* favorites file nobody touches: the scheduler starts run after run and
\* every run gets to its end (no search error; a failed send still ends the
\* run at line 391).  The steps of main() follow one another and the
\* schedule starts the next run, hence the weak fairness of the next step.
\* ------------------------------------------------------------------------
Markets == Responses \cup { << >>, <<7, 8, 9>> }

\* the favorites file, by catalog number
FixedFavorites == { << >>, <<1>>, <<9>>, <<3, 12>>, <<7, 8, 9>> }

InitFixed ==
    /\ market \in Markets
    /\ \E favs \in FixedFavorites :
        favoritesStore = [i \in 1..Len(favs) |-> enrich_listing(Catalog[favs[i]])]
    /\ dismissedStore = << >> /\ pendingStore = << >>
    /\ preferencesStore = get_default_preferences
    /\ pc = "idle"
    /\ TESTING_MODE = FALSE
    /\ EmptyLocals
    /\ exit_code = None
    /\ EmptyObservations
    /\ config = Config
    /\ feedback_text = "" /\ feedback_updates = NoUpdates /\ outcome = "NoCall"
    /\ feedback_summary = NoSummary

SearchFixed == SearchIn({market})

NextFixed ==
    \/ LoadNormal \/ UpdatePreferences \/ MovePendingToDismissed
    \/ SearchFixed \/ Score \/ Select \/ SavePending \/ SendEmail \/ Return

\* Every step of NextFixed moves pc, one step of NextFixed is possible at
\* every pc, and nothing else moves pc: weak fairness of the next step is
\* weak fairness of pc moving on.
Advance ==
    pc' \in {"idle", "loaded", "dismissal", "search", "candidates", "scored",
             "selected", "email", "done", "failed", "raised"} /\ pc' # pc

SpecFixed == InitFixed /\ [][NextFixed]_vars /\ WF_pc(Advance)

\* ------------------------------------------------------------------------
\* The selector on its own: a run that stands before the search (line 241)
\* with one of a few profiles, and a source that may return any list of up
\* to MaxCandidates listings that pass the filter and have a zpid, in catalog
\* order with one of them possibly twice, or in reverse catalog order.
\* ------------------------------------------------------------------------
RECURSIVE Ascending(_)
Ascending(S) ==
    IF S = {} THEN << >>
    ELSE LET m == CHOOSE x \in S : \A y \in S : x <= y
         IN  <<m>> \o Ascending(S \ {m})

RECURSIVE Twice(_, _)
Twice(seq, d) ==
    IF seq = << >> THEN << >>
    ELSE (IF Head(seq) = d THEN <<d, d>> ELSE <<Head(seq)>>) \o Twice(Tail(seq), d)

Reverse(seq) == [i \in 1..Len(seq) |-> seq[Len(seq) + 1 - i]]

Sellable == {k \in DOMAIN Catalog : matches(Catalog[k]) /\ Catalog[k].zpid # 0}

AnyResponses ==
    { IF rev THEN Reverse(Twice(Ascending(S), d)) ELSE Twice(Ascending(S), d) :
        <<S, d, rev>> \in
            { x \in (SUBSET Sellable) \X (Sellable \cup {0}) \X BOOLEAN :
                /\ x[2] # 0 => (x[2] \in x[1] /\ ~x[3])
                /\ Cardinality(x[1]) + (IF x[2] # 0 THEN 1 ELSE 0) <= MaxCandidates } }

SearchAny == SearchIn(AnyResponses)

\* the favorites (by catalog number) the selector's profiles are learned from
SelectorFavorites == { << >>, <<1>>, <<9>>, <<3, 12>> }

\* and the feedback applied when there are no favorites
SelectorUpdates ==
    { NoUpdates,
      Updates(<<"Tarrytown">>, << >>, "False"),
      Updates(<<"Round Rock">>, << >>, "None") }

InitSelect ==
    /\ \E favs \in SelectorFavorites, updates \in SelectorUpdates :
        /\ favs # << >> => updates = NoUpdates
        /\ favoritesStore = [i \in 1..Len(favs) |-> enrich_listing(Catalog[favs[i]])]
        /\ preferencesStore =
              IF favs # << >> THEN update_preferences_from_favorites(favoritesStore)
              ELSE apply_feedback_updates(get_default_preferences, updates)
    /\ dismissedStore = << >> /\ pendingStore = << >>
    /\ pc = "search"
    /\ TESTING_MODE = FALSE
    /\ favorites = favoritesStore
    /\ preferences = preferencesStore
    /\ dismissed = << >> /\ pending = << >>
    /\ filtered = << >> /\ new_listings = << >> /\ top_listings = << >>
    /\ exit_code = None
    /\ EmptyObservations
    /\ NoCalls

NextSelect == SearchAny \/ Score \/ Select

SpecSelect == InitSelect /\ [][NextSelect]_vars

\* ------------------------------------------------------------------------
\* The profile on its own: favorites are added to the store, the profile is
\* rebuilt from them (update_preferences_from_favorites followed by
\* save_preferences, main.py lines 225-227) and feedback is applied to the
\* persisted profile, in any order.
\* ------------------------------------------------------------------------
\* the listings (by catalog number) that can be favorited
LearnKinds == {1, 2, 3, 4}

NewFavorite ==
    /\ pc = "idle"
    /\ \E k \in LearnKinds :
        /\ Catalog[k].zpid \notin FavoriteZpids(favoritesStore)
        /\ favoritesStore' = Append(favoritesStore, enrich_listing(Catalog[k]))
    /\ UNCHANGED <<callVars, dismissedStore, pendingStore, preferencesStore, pc,
                   TESTING_MODE, localVars, exit_code, obsVars>>

Derive ==
    /\ pc = "idle"
    /\ preferencesStore' = update_preferences_from_favorites(favoritesStore)
    /\ UNCHANGED <<callVars, favoritesStore, dismissedStore, pendingStore, pc,
                   TESTING_MODE, localVars, exit_code, obsVars>>

LearnUpdates ==
    { Updates(<<"Tarrytown">>, << >>, "False"),
      Updates(<< >>, <<"Zilker", "Mueller">>, "None"),
      Updates(<<"Zilker", "Round Rock">>, << >>, "None"),
      Updates(<< >>, <<"Tarrytown", "Downtown">>, "True") }

Feedback == FeedbackIn(LearnUpdates)

NextLearn == NewFavorite \/ Derive \/ Feedback

SpecLearn == Init /\ [][NextLearn]_vars

\* ------------------------------------------------------------------------
\* The learner on its own: a run that has loaded its stores (line 221) with
\* any favorites of up to MaxFavorites entries, or one of a few longer ones,
\* and rebuilds the profile from them (lines 223-230).
\* ------------------------------------------------------------------------
\* what a favorites entry can look like: listings as they were shown, and
\* entries that carry a neighborhood but no coordinates or no HOA flag
FavoriteKinds ==
    << enrich_listing(Catalog[1]),
       enrich_listing(Catalog[2]),
       enrich_listing(Catalog[3]),
       enrich_listing(Catalog[4]),
       enrich_listing(Catalog[6]),
       [enrich_listing(Catalog[7]) EXCEPT !.point = NoPoint, !.has_hoa = "None"],
       [enrich_listing(Catalog[8]) EXCEPT !.point = NoPoint] >>

\* the favorites dict whose i-th entry (zpid i) is of kind kinds[i]
FavoritesOf(kinds) ==
    [i \in 1..Len(kinds) |-> [FavoriteKinds[kinds[i]] EXCEPT !.zpid = i]]

\* 7 favorites in Zilker then 3 in Mueller, none with coordinates; and two
\* orders of four favorites that count six neighborhoods
ZilkerAndMueller == [i \in 1..10 |-> IF i <= 7 THEN 6 ELSE 7]
LongFavorites == { ZilkerAndMueller, <<1, 4, 2, 3>>, <<3, 4, 1, 2>> }

AnyFavorites ==
    { FavoritesOf(kinds) :
        kinds \in LongFavorites
            \cup UNION {[1..n -> DOMAIN FavoriteKinds] : n \in 0..MaxFavorites} }

InitDerive ==
    /\ favoritesStore \in AnyFavorites
    /\ dismissedStore = << >> /\ pendingStore = << >>
    /\ preferencesStore = get_default_preferences
    /\ pc = "loaded"
    /\ TESTING_MODE = FALSE
    /\ favorites = favoritesStore
    /\ dismissed = << >> /\ pending = << >>
    /\ preferences = get_default_preferences
    /\ filtered = << >> /\ new_listings = << >> /\ top_listings = << >>
    /\ exit_code = None
    /\ stores_at_start = Snapshot
    /\ reads = Count(NoAccess, {"favorites", "dismissed", "pending"})
    /\ writes = NoAccess
    /\ quota_selection = << >> /\ swapped = FALSE /\ delivered = {}
    /\ NoCalls

SpecDerive == InitDerive /\ [][UpdatePreferences]_vars

\* ------------------------------------------------------------------------
\* The scorer on its own: a run that stands before the scoring loop (line
\* 295) with one candidate, a config and a profile, each drawn from a set.
\* ------------------------------------------------------------------------
ScoreDistances == {None, 0, 10, 20, 25}
ScorePrices == {None, 0, 200, 250, 350, 400, 425, 450, 460, 500, 550, 600, 750, 800}
\* days-on-market as the source reports them, unvalidated: absent, a negative
\* count (None being -1 here, -2 stands for it), today, and older
ScoreDays == {None, -2, 0, 30, 60, 90}

\* a candidate without neighborhood or sizes, as enrich_listing returns it
Candidate(distance, price, days) ==
    [Listing(1, price, None, None, None, "False", days, NoPoint) EXCEPT !.distance = distance]

\* no bounds, [0, $1,000,000], a maximum only, equal bounds, crossed bounds,
\* a minimum only
PriceBounds ==
    { <<None, None>>, <<0, 1000>>, <<None, 2000>>, <<800, 800>>, <<1000, 500>>,
      <<300, None>> }
ScoreConfigs == {[Config EXCEPT !.min_price = b[1], !.max_price = b[2]] : b \in PriceBounds}

\* the neutral profile, one with an ideal price only, one learned from a favorite
ScoreProfiles ==
    { get_default_preferences,
      [get_default_preferences EXCEPT !.ideal_price = RInt(500)],
      update_preferences_from_favorites(FavoritesOf(<<1>>)) }

InitScore ==
    /\ favoritesStore = << >> /\ dismissedStore = << >> /\ pendingStore = << >>
    /\ preferencesStore \in ScoreProfiles
    /\ pc = "candidates"
    /\ TESTING_MODE = FALSE
    /\ favorites = << >> /\ dismissed = << >> /\ pending = << >>
    /\ preferences = preferencesStore
    /\ \E distance \in ScoreDistances, price \in ScorePrices, days \in ScoreDays :
          /\ filtered = <<Candidate(distance, price, days)>>
          /\ new_listings = filtered
    /\ top_listings = << >>
    /\ exit_code = None
    /\ EmptyObservations
    /\ config \in ScoreConfigs
    /\ feedback_text = "" /\ feedback_updates = NoUpdates /\ outcome = "NoCall"
    /\ feedback_summary = NoSummary
    /\ market = << >>

SpecScore == InitScore /\ [][Score]_vars

\* ------------------------------------------------------------------------
\* The feedback parser on its own: a text is handed to parse_feedback.
\* ------------------------------------------------------------------------
FeedbackTexts ==
    LET Openers == {"", "I love ", "I like ", "Please avoid ", "No more "}
        Places == {"", "Tarrytown", "Tarry Town", "Hyde Park and Zilker",
                   "the Domain downtown"}
        PricePhrases ==
            {"", ", max $750k", ", under $1.2.3m", ", up to $1,200,000",
             ", maximum price $.", ", at least $300K", ", max $ 5", ", over $1.5 m"}
        HoaPhrases == {"", ", no HOA", ", with HOA"}
        SizePhrases == {"", ", 3+ beds 2 baths"}
    IN  { a \o b \o c \o d \o e :
            a \in Openers, b \in Places, c \in PricePhrases, d \in HoaPhrases,
            e \in SizePhrases }

InitFeedback ==
    /\ favoritesStore = << >> /\ dismissedStore = << >> /\ pendingStore = << >>
    /\ preferencesStore = get_default_preferences
    /\ pc = "idle"
    /\ TESTING_MODE = FALSE
    /\ EmptyLocals
    /\ exit_code = None
    /\ EmptyObservations
    /\ config = Config
    /\ feedback_text \in FeedbackTexts
    /\ feedback_updates = NoUpdates /\ outcome = "NoCall"
    /\ feedback_summary = NoSummary
    /\ market = << >>

ParseFeedback ==
    /\ outcome = "NoCall"
    /\ \E call \in {parse_feedback(feedback_text)} :
           /\ outcome' = IF call.raised = "None" THEN "Returned" ELSE call.raised
           /\ feedback_updates' = call.updates
    /\ UNCHANGED <<storeVars, pc, TESTING_MODE, localVars, exit_code, obsVars,
                   config, feedback_text, feedback_summary, market>>

SpecFeedback == InitFeedback /\ [][ParseFeedback]_vars

\* ------------------------------------------------------------------------
\* The feedback applier on its own: apply_feedback_updates is called, any
\* number of times, on a persisted profile that starts as the default or as
\* one derived from favorites, with update sets of the shapes parse_feedback
\* returns (neighborhoods are either added or removed, never both).
\* ------------------------------------------------------------------------
\* favorites whose profile leaves Tarrytown unlisted and unweighted; lists it
\* with a derived weight of 5/4; weights it without listing it (sixth by count)
ApplyProfiles ==
    { get_default_preferences,
      update_preferences_from_favorites(FavoritesOf(<<1>>)),
      update_preferences_from_favorites(FavoritesOf(<<1, 3>>)),
      update_preferences_from_favorites(FavoritesOf(<<1, 4, 2, 3>>)) }

ApplyUpdateSets ==
    { NoUpdates,
      [NoUpdates EXCEPT !.max_price = 750000],
      [NoUpdates EXCEPT !.min_price = 300000, !.min_beds = 3, !.min_baths = 2],
      Updates(<< >>, << >>, "True"),
      Updates(<< >>, << >>, "False"),
      Updates(<<"Tarrytown">>, << >>, "None"),
      Updates(<<"Round Rock", "Zilker">>, << >>, "None"),
      [Updates(<<"Barton Hills">>, << >>, "False") EXCEPT !.max_price = 750000],
      Updates(<< >>, <<"Tarrytown">>, "None"),
      Updates(<< >>, <<"Round Rock", "Zilker">>, "None"),
      Updates(<< >>, <<"Barton Hills">>, "True") }

InitApply ==
    /\ favoritesStore = << >> /\ dismissedStore = << >> /\ pendingStore = << >>
    /\ preferencesStore \in ApplyProfiles
    /\ pc = "idle"
    /\ TESTING_MODE = FALSE
    /\ EmptyLocals
    /\ exit_code = None
    /\ EmptyObservations
    /\ NoCalls

\* learning.py lines 301-359: load, update, save, return the changes.
\* stores_at_start keeps the profile as the call found it.
ApplyUpdates ==
    /\ pc = "idle"
    /\ \E updates \in ApplyUpdateSets :
        /\ feedback_updates' = updates
        /\ preferencesStore' = apply_feedback_updates(preferencesStore, updates)
        /\ feedback_summary' = feedback_changes(preferencesStore, updates)
    /\ outcome' = "Applied"
    /\ stores_at_start' = Snapshot
    /\ reads' = Count(NoAccess, {"preferences"})
    /\ writes' = Count(NoAccess, {"preferences"})
    /\ UNCHANGED <<favoritesStore, dismissedStore, pendingStore, pc, TESTING_MODE,
                   localVars, exit_code, quota_selection, swapped, delivered,
                   config, feedback_text, market>>

SpecApply == InitApply /\ [][ApplyUpdates]_vars

\* ------------------------------------------------------------------------
\* Scoring and selection on their own: a run that stands before the scoring
\* loop (line 295) with a config, a profile and candidates that passed the
\* config's price filter: none, one with any of its fields absent or 0, or
\* seven of the catalog.
\* ------------------------------------------------------------------------
\* the neutral profile; one whose ideal values are 0 (favorites whose values
\* cancel out); one learned from a favorite; one with a preferred
\* neighborhood set by feedback
RankProfiles ==
    { get_default_preferences,
      [get_default_preferences EXCEPT !.ideal_price = RInt(0), !.ideal_sqft = RInt(0),
                                      !.ideal_beds = RInt(0)],
      update_preferences_from_favorites(FavoritesOf(<<1>>)),
      apply_feedback_updates(get_default_preferences,
                             Updates(<<"Round Rock">>, << >>, "None")) }

RankCandidates ==
    { << >>, [i \in 1..7 |-> enrich_listing(Catalog[i])] }
    \cup { <<enrich_listing(Listing(1, price, beds, None, sqft, "False", None, point))>> :
            price \in {None, 0, 800}, beds \in {None, 3}, sqft \in {None, 0, 1500},
            point \in {NoPoint, 5} }

\* ListingFilter.matches on the price, for the config of the run
PassesPriceFilter(listing, cfg) ==
    Truthy(listing.price) =>
        /\ ~(Truthy(cfg.min_price) /\ listing.price < cfg.min_price)
        /\ ~(Truthy(cfg.max_price) /\ listing.price > cfg.max_price)

InitRank ==
    /\ favoritesStore = << >> /\ dismissedStore = << >> /\ pendingStore = << >>
    /\ preferencesStore \in RankProfiles
    /\ pc = "candidates"
    /\ TESTING_MODE = FALSE
    /\ favorites = << >> /\ dismissed = << >> /\ pending = << >>
    /\ preferences = preferencesStore
    /\ config \in ScoreConfigs
    /\ filtered \in RankCandidates
    /\ \A i \in 1..Len(filtered) : PassesPriceFilter(filtered[i], config)
    /\ new_listings = filtered
    /\ top_listings = << >>
    /\ exit_code = None
    /\ EmptyObservations
    /\ feedback_text = "" /\ feedback_updates = NoUpdates /\ outcome = "NoCall"
    /\ feedback_summary = NoSummary
    /\ market = << >>

NextRank == Score \/ Select

SpecRank == InitRank /\ [][NextRank]_vars

\* ------------------------------------------------------------------------
\* Properties
\* ------------------------------------------------------------------------
AfterSelection == {"selected", "email", "done"}
AfterPreferences == {"dismissal", "search", "candidates", "scored", "selected",
                     "email", "done", "failed"}
Shortlist == Range(Zpids(top_listings))
Occurrences(x, seq) == Cardinality({i \in 1..Len(seq) : seq[i] = x})

\* C1 as stated: in every run, testing mode included, no identifier of the
\* shortlist is in the favorites or in the dismissed set the run loaded.
C1_ShortlistAvoidsFavoritesAndDismissed ==
    pc \in AfterSelection =>
        Shortlist \cap (FavoriteZpids(stores_at_start.favorites)
                            \cup Range(stores_at_start.dismissed)) = {}

\* C1 amended: no identifier of the shortlist is in the favorites the run
\* loaded; in normal mode none is in the dismissed set the run loaded either
\* (nor in the pending set it loaded, which the run dismisses).
C1_ShortlistAvoidsFavoritesAndNormalDismissed ==
    pc \in AfterSelection =>
        /\ Shortlist \cap FavoriteZpids(stores_at_start.favorites) = {}
        /\ ~TESTING_MODE =>
              Shortlist \cap (Range(stores_at_start.dismissed)
                                \cup Range(stores_at_start.pending)) = {}

\* a normal-mode shortlist drawn from a response that also held a favorite
\* and a dismissed listing
C1_Witness ==
    /\ pc = "selected" /\ ~TESTING_MODE /\ top_listings # << >>
    /\ \E i \in 1..Len(filtered) :
          filtered[i].zpid \in FavoriteZpids(stores_at_start.favorites)
    /\ \E i \in 1..Len(filtered) :
          filtered[i].zpid \in Range(stores_at_start.dismissed)

\* C2 as stated: the shortlist has min(MAX_LISTINGS, number of distinct
\* eligible candidates) listings, also when a listing occurs more than once.
C2_SizeIsMinOfMaxAndDistinct ==
    pc \in AfterSelection =>
        Len(top_listings) = Min(MAX_LISTINGS, Cardinality(Range(new_listings)))

\* C3: if the profile has a preferred neighborhood and some eligible candidate
\* lies in one, the shortlist holds a listing of a preferred neighborhood.
C3_PreferredNeighborhoodGuaranteed ==
    pc \in AfterSelection =>
        ((/\ preferences.preferred_neighborhoods # << >>
          /\ \E i \in 1..Len(new_listings) :
                InPreferred(new_listings[i], preferences.preferred_neighborhoods))
         => \E j \in 1..Len(top_listings) :
                InPreferred(top_listings[j], preferences.preferred_neighborhoods))

\* the guarantee was needed: quota and backfill had picked no preferred listing
C3_Witness ==
    /\ pc = "selected"
    /\ preferences.preferred_neighborhoods # << >>
    /\ ~\E i \in 1..Len(quota_selection) :
          InPreferred(quota_selection[i], preferences.preferred_neighborhoods)
    /\ \E j \in 1..Len(top_listings) :
          InPreferred(top_listings[j], preferences.preferred_neighborhoods)

\* C4: the selection changes after quota and backfill iff the profile has a
\* preferred neighborhood, no selected listing is in one and a non-selected
\* candidate is; then exactly one member is replaced, the one removed has
\* the lowest score of the selection, the one inserted the highest score
\* among the non-selected preferred candidates, and the rest and the size
\* stay as they were.
SwapCondition ==
    LET preferred == preferences.preferred_neighborhoods
    IN  /\ Len(preferred) >= 1
        /\ \A i \in 1..Len(quota_selection) :
              ~InList(quota_selection[i].neighborhood, preferred)
        /\ \E i \in 1..Len(new_listings) :
              /\ InList(new_listings[i].neighborhood, preferred)
              /\ new_listings[i] \notin Range(quota_selection)

OneReplaced(out, in) ==
    /\ Len(top_listings) = Len(quota_selection)
    /\ \A x \in Range(quota_selection) \cup Range(top_listings) :
          Occurrences(x, top_listings) =
              Occurrences(x, quota_selection)
                 - (IF x = out THEN 1 ELSE 0) + (IF x = in THEN 1 ELSE 0)

SelectionChanged ==
    \E x \in Range(quota_selection) \cup Range(top_listings) :
        Occurrences(x, top_listings) # Occurrences(x, quota_selection)

C4_SwapExactlyWhenNeeded ==
    pc \in AfterSelection =>
        /\ SelectionChanged <=> SwapCondition
        /\ swapped <=> SwapCondition
        /\ SwapCondition =>
              \E out \in Range(quota_selection), in \in Range(new_listings) :
                  /\ OneReplaced(out, in)
                  /\ \A x \in Range(quota_selection) :
                        RLeq(out.relevance_score, x.relevance_score)
                  /\ InList(in.neighborhood, preferences.preferred_neighborhoods)
                  /\ in \notin Range(quota_selection)
                  /\ \A y \in Range(new_listings) :
                        (/\ InList(y.neighborhood, preferences.preferred_neighborhoods)
                         /\ y \notin Range(quota_selection))
                        => RLeq(y.relevance_score, in.relevance_score)

\* a swap out of a full selection with two preferred candidates left out
C4_Witness ==
    /\ pc = "selected" /\ swapped
    /\ Len(quota_selection) = MAX_LISTINGS
    /\ Cardinality({x \in Range(new_listings) :
            /\ InList(x.neighborhood, preferences.preferred_neighborhoods)
            /\ x \notin Range(quota_selection)}) >= 2

\* C5: when a bucket has fewer candidates than its quota, every candidate of
\* that bucket is selected and the free slots are filled in descending score
\* order over what is left of both buckets: the backfilled listings come in
\* non-increasing score order and no candidate left out scores strictly
\* higher than a backfilled one.  (2 under and 3 over: all five are selected.)
UnderBucket == SelectSeq(new_listings, LAMBDA l : l.price < Threshold)
OverBucket == SelectSeq(new_listings, LAMBDA l : l.price >= Threshold)
QuotaSize == Min(UnderQuota, Len(UnderBucket)) + Min(OverQuota, Len(OverBucket))
Backfilled == SubSeq(quota_selection, QuotaSize + 1, Len(quota_selection))

C5_BackfillByDescendingScore ==
    pc \in AfterSelection =>
        /\ Len(UnderBucket) < UnderQuota =>
              \A x \in Range(UnderBucket) :
                  Occurrences(x, quota_selection) = Occurrences(x, new_listings)
        /\ Len(OverBucket) < OverQuota =>
              \A x \in Range(OverBucket) :
                  Occurrences(x, quota_selection) = Occurrences(x, new_listings)
        /\ Len(quota_selection) >= QuotaSize
        /\ (Len(UnderBucket) >= UnderQuota /\ Len(OverBucket) >= OverQuota)
              => Backfilled = << >>
        /\ \A i, j \in 1..Len(Backfilled) :
              i < j => RLeq(Backfilled[j].relevance_score, Backfilled[i].relevance_score)
        /\ \A x \in Range(new_listings) \ Range(quota_selection) :
              \A i \in 1..Len(Backfilled) :
                  RLeq(x.relevance_score, Backfilled[i].relevance_score)
        /\ (Len(UnderBucket) = 2 /\ Len(OverBucket) = 3
                /\ Cardinality(Range(new_listings)) = 5)
              => (Len(quota_selection) = 5
                    /\ Range(quota_selection) = Range(new_listings))

\* slots were backfilled and a lower-scored candidate was left out
C5_Witness ==
    /\ pc = "selected"
    /\ Len(Backfilled) >= 2
    /\ \E x \in Range(new_listings) \ Range(quota_selection) :
          RLess(x.relevance_score, Backfilled[Len(Backfilled)].relevance_score)

\* C6: in normal mode, once a run has saved its selection, every identifier
\* that was pending when the run started is dismissed and the pending store
\* holds exactly the identifiers of the listings selected in this run.
C6_PendingDismissedAndSelectionPending ==
    (pc \in {"email", "done"} /\ ~TESTING_MODE) =>
        /\ Range(stores_at_start.pending) \subseteq Range(dismissedStore)
        /\ Range(pendingStore) = Shortlist

\* a normal run that found pending identifiers and selected other listings
C6_Witness ==
    /\ pc = "done" /\ ~TESTING_MODE
    /\ stores_at_start.pending # << >>
    /\ top_listings # << >>

\* C7: in testing mode a run leaves the dismissed and the pending store as it
\* found them, and every listing of the response whose identifier was
\* pending, unless it is a favorite, is among the run's candidates.
C7_TestingModeKeepsPending ==
    (TESTING_MODE /\ pc # "idle") =>
        /\ dismissedStore = stores_at_start.dismissed
        /\ pendingStore = stores_at_start.pending
        /\ pc \in {"candidates", "scored"} \cup AfterSelection =>
              \A i \in 1..Len(filtered) :
                  (/\ filtered[i].zpid \in Range(stores_at_start.pending)
                   /\ filtered[i].zpid \notin FavoriteZpids(stores_at_start.favorites))
                  => filtered[i].zpid \in Range(Zpids(new_listings))

\* a testing-mode run that shows a listing that was pending again
C7_Witness ==
    /\ pc = "done" /\ TESTING_MODE
    /\ stores_at_start.pending # << >>
    /\ Shortlist \cap Range(stores_at_start.pending) # {}

\* C8 as stated: no store is written before the shortlist is computed, and no
\* store is written more than once in a run.
BeforeSelection == {"loaded", "dismissal", "search", "candidates", "scored"}
C8_WrittenOnceAtEnd ==
    /\ pc \in BeforeSelection => writes = NoAccess
    /\ \A s \in StoreNames : writes[s] <= 1

\* C8 amended: in a run favorites, dismissed and pending are each read once,
\* at the start, and the profile is read only when there are no favorites;
\* favorites is never written; before the search the profile is written
\* once if there are favorites, and in normal mode with identifiers pending
\* dismissed is written once and pending is cleared; after the selection
\* pending is written once more in normal mode.  So pending is written up to
\* twice, every other store at most once.
Flag(b) == IF b THEN 1 ELSE 0
C8_ReadsAndWritesOfARun ==
    pc # "idle" =>
        /\ reads.favorites = 1 /\ reads.dismissed = 1 /\ reads.pending = 1
        /\ writes.favorites = 0
        /\ pc \in AfterPreferences =>
              /\ reads.preferences = Flag(favorites = << >>)
              /\ writes.preferences = Flag(favorites # << >>)
        /\ pc \in AfterPreferences \ {"dismissal"} =>
              writes.dismissed = Flag(~TESTING_MODE /\ pending # << >>)
        /\ pc \in {"search", "candidates", "scored", "selected", "failed"} =>
              writes.pending = Flag(~TESTING_MODE /\ pending # << >>)
        /\ pc \in {"email", "done"} =>
              writes.pending = Flag(~TESTING_MODE /\ pending # << >>) + Flag(~TESTING_MODE)

\* a run that wrote the profile and dismissed before searching, and pending twice
C8_Witness ==
    /\ pc = "done"
    /\ writes.preferences = 1 /\ writes.dismissed = 1 /\ writes.pending = 2

\* C9 as stated: after a normal run every identifier in the pending store was
\* delivered to the buyer by that run.
C9_PendingWasDelivered ==
    (pc = "done" /\ ~TESTING_MODE) => Range(pendingStore) \subseteq delivered

\* C10 as stated: the profile a run scores with is the one derived from the
\* favorites it loaded; with no favorites that is the neutral default.
C10_ProfileIsDerivedFromFavorites ==
    pc \in AfterPreferences =>
        preferences = update_preferences_from_favorites(stores_at_start.favorites)

\* C10 amended: with favorites, the profile a run scores with is the one
\* derived from the favorites it loaded, which is also persisted, whatever
\* was persisted before; with no favorites it is the persisted profile as the
\* run found it (an earlier override or learned profile stays in force).
Unscored(listings) == [i \in 1..Len(listings) |-> [listings[i] EXCEPT !.relevance_score = NoneR]]
C10_ProfileDerivedOrLoaded ==
    pc \in AfterPreferences =>
        /\ stores_at_start.favorites # << >> =>
              /\ preferences = update_preferences_from_favorites(stores_at_start.favorites)
              /\ preferencesStore = preferences
        /\ stores_at_start.favorites = << >> =>
              /\ preferences = stores_at_start.preferences
              /\ preferencesStore = stores_at_start.preferences
        /\ pc \in {"scored"} \cup AfterSelection =>
              new_listings = ScoreAll(Unscored(new_listings), config, preferences)

\* a run with favorites that scored candidates with a rebuilt profile that
\* differs from the overridden one it found persisted
C10_Witness ==
    /\ pc = "scored" /\ new_listings # << >>
    /\ stores_at_start.favorites # << >>
    /\ stores_at_start.preferences # preferences
    /\ stores_at_start.preferences.hoa_preference = "False"
    /\ preferences.hoa_preference # "False"

\* ------------------------------------------------------------------------
\* The profile
\* ------------------------------------------------------------------------
\* how many times the favorites count neighborhood n: once for each favorite
\* in it and once for each favorite with coordinates within 2 miles of it
NeighborhoodCount(n, favs) ==
    Cardinality({i \in 1..Len(favs) : favs[i].neighborhood = n})
    + Cardinality({i \in 1..Len(favs) :
        /\ favs[i].neighborhood # NoName /\ favs[i].point # NoPoint
        /\ InList(n, Geography[favs[i].point].nearby)})
CountedNames(favs) ==
    {n \in {Geography[p].neighborhood : p \in DOMAIN Geography}
            \cup UNION {Range(Geography[p].nearby) : p \in DOMAIN Geography} :
        NeighborhoodCount(n, favs) > 0}
HighestCount(favs) ==
    CHOOSE m \in 0..(3 * Len(favs)) :
        /\ \A n \in CountedNames(favs) : NeighborhoodCount(n, favs) <= m
        /\ CountedNames(favs) # {} => \E n \in CountedNames(favs) : NeighborhoodCount(n, favs) = m
        /\ CountedNames(favs) = {} => m = 0

\* C11: whatever derive and feedback operations were applied, every value of
\* neighborhood_weights is 1/2 (remove override), 3/2 (add override or the
\* most counted neighborhood) or a derived value 1 + (count/max_count)/2 lying
\* in [1, 3/2]; a freshly derived profile gives each counted neighborhood
\* exactly 1 + (count/max_count)/2 and the most counted ones exactly 3/2.
C11_WeightsDerivedOrOverridden ==
    LET weights == preferencesStore.neighborhood_weights
        top == 3 * Len(favoritesStore)
    IN  /\ \A n \in DOMAIN weights :
            \/ weights[n] = <<1, 2>>
            \/ weights[n] = <<3, 2>>
            \/ /\ \E c \in 1..top, m \in 1..top :
                    c <= m /\ weights[n][1] * 2 * m = (2 * m + c) * weights[n][2]
               /\ RLeq(RInt(1), weights[n]) /\ RLeq(weights[n], <<3, 2>>)
        /\ preferencesStore = update_preferences_from_favorites(favoritesStore) =>
            /\ DOMAIN weights = CountedNames(favoritesStore)
            /\ \A n \in DOMAIN weights :
                /\ weights[n][1] * 2 * HighestCount(favoritesStore)
                      = (2 * HighestCount(favoritesStore)
                            + NeighborhoodCount(n, favoritesStore)) * weights[n][2]
                /\ NeighborhoodCount(n, favoritesStore) = HighestCount(favoritesStore)
                      => weights[n] = <<3, 2>>

\* a profile holding a removed neighborhood (1/2), a derived weight strictly
\* between 1 and 3/2, and a neighborhood no favorite counts at 3/2 (added)
C11_Witness ==
    LET weights == preferencesStore.neighborhood_weights
    IN  /\ \E n \in DOMAIN weights : weights[n] = <<1, 2>>
        /\ \E n \in DOMAIN weights :
              RLess(RInt(1), weights[n]) /\ RLess(weights[n], <<3, 2>>)
        /\ \E n \in DOMAIN weights :
              weights[n] = <<3, 2>> /\ NeighborhoodCount(n, favoritesStore) = 0

\* where the favorites first count neighborhood n, in iteration order: the
\* entry, and within the entry its own neighborhood before the nearby ones
Contributes(fav, n) ==
    fav.neighborhood # NoName
    /\ (fav.neighborhood = n
          \/ (fav.point # NoPoint /\ InList(n, Geography[fav.point].nearby)))
FirstEntry(n, favs) ==
    CHOOSE i \in 1..Len(favs) :
        Contributes(favs[i], n) /\ \A j \in 1..(i - 1) : ~Contributes(favs[j], n)
PlaceInEntry(fav, n) ==
    IF fav.neighborhood = n THEN 0
    ELSE CHOOSE k \in 1..Len(Geography[fav.point].nearby) :
            /\ Geography[fav.point].nearby[k] = n
            /\ \A j \in 1..(k - 1) : Geography[fav.point].nearby[j] # n
CountedBefore(a, b, favs) ==
    \/ FirstEntry(a, favs) < FirstEntry(b, favs)
    \/ /\ FirstEntry(a, favs) = FirstEntry(b, favs)
       /\ PlaceInEntry(favs[FirstEntry(a, favs)], a) < PlaceInEntry(favs[FirstEntry(b, favs)], b)
\* a ranks before b: counted more often, or as often and counted first
RanksBefore(a, b, favs) ==
    \/ NeighborhoodCount(a, favs) > NeighborhoodCount(b, favs)
    \/ /\ NeighborhoodCount(a, favs) = NeighborhoodCount(b, favs)
       /\ CountedBefore(a, b, favs)

\* C12: the profile derived from the favorites lists the (at most 5) most
\* counted neighborhoods, most counted first and equally counted ones in the
\* order the favorites first count them; each has a weight; 7 favorites in
\* Zilker and 3 in Mueller without coordinates give [Zilker, Mueller] with
\* weights 3/2 and 1 + (3/7)/2 = 17/14.
C12_PreferredAreTopCounted ==
    pc = "dismissal" =>
        LET preferred == preferences.preferred_neighborhoods
            counted == CountedNames(favorites)
        IN  /\ Len(preferred) = Min(5, Cardinality(counted))
            /\ Range(preferred) \subseteq counted
            /\ \A i \in 1..Len(preferred), j \in 1..Len(preferred) :
                  i < j => RanksBefore(preferred[i], preferred[j], favorites)
            /\ \A n \in counted \ Range(preferred) :
                  \A i \in 1..Len(preferred) : RanksBefore(preferred[i], n, favorites)
            /\ Range(preferred) \subseteq DOMAIN preferences.neighborhood_weights
            /\ favorites = FavoritesOf(ZilkerAndMueller) =>
                  /\ preferred = <<"Zilker", "Mueller">>
                  /\ preferences.neighborhood_weights["Zilker"] = <<3, 2>>
                  /\ preferences.neighborhood_weights["Mueller"] = <<17, 14>>

\* a derived profile that leaves a counted neighborhood out of its five and
\* lists two equally counted ones
C12_Witness ==
    /\ pc = "dismissal"
    /\ Cardinality(CountedNames(favorites)) > 5
    /\ Len(preferences.preferred_neighborhoods) = 5
    /\ \E i \in 1..4 :
          NeighborhoodCount(preferences.preferred_neighborhoods[i], favorites)
            = NeighborhoodCount(preferences.preferred_neighborhoods[i + 1], favorites)

\* C13 as stated: whatever derive and feedback operations were applied, the
\* persisted profile lists at most 5 preferred neighborhoods, none twice.
C13_AtMostFiveDistinctPreferred ==
    LET preferred == preferencesStore.preferred_neighborhoods
    IN  /\ Len(preferred) <= 5
        /\ \A i \in 1..Len(preferred), j \in 1..Len(preferred) :
              preferred[i] = preferred[j] => i = j

\* the same favorites with entries i and j in each other's place
Swapped(favs, i, j) ==
    [k \in 1..Len(favs) |-> IF k = i THEN favs[j] ELSE IF k = j THEN favs[i] ELSE favs[k]]
SameValues(a, b) ==
    \A v \in Range(a) \cup Range(b) : Occurrences(v, a) = Occurrences(v, b)
CountsOf(names, favs) == [k \in 1..Len(names) |-> NeighborhoodCount(names[k], favs)]

WithHoa(favs, flag) == Cardinality({i \in 1..Len(favs) : favs[i].has_hoa = flag})

\* C15: with t favorites flagged HOA and f flagged no-HOA (unflagged ones
\* ignored), the derived hoa_preference is True iff t > 2f, False iff f > 2t
\* and unset otherwise; the two conditions never hold together.
C15_HoaPreferenceByTwoToOne ==
    pc = "dismissal" =>
        LET t == WithHoa(favorites, "True")
            f == WithHoa(favorites, "False")
        IN  /\ preferences.hoa_preference = "True" <=> t > 2 * f
            /\ preferences.hoa_preference = "False" <=> f > 2 * t
            /\ preferences.hoa_preference = "None" <=> (t <= 2 * f /\ f <= 2 * t)
            /\ ~(t > 2 * f /\ f > 2 * t)

\* a majority of two to one, which is not more than 2:1, leaves it unset
C15_Witness ==
    /\ pc = "dismissal"
    /\ WithHoa(favorites, "True") = 2 /\ WithHoa(favorites, "False") = 1
    /\ preferences.hoa_preference = "None"

\* ------------------------------------------------------------------------
\* The scorer
\* ------------------------------------------------------------------------
Percent(num, den) == Rat(100 * num, den)
Within0To100(r) == RLeq(RInt(0), r) /\ RLeq(r, RInt(100))

\* the sub-scores as the scoring rules give them
ExpectedDistanceScore(l) ==
    IF l.distance = None THEN RInt(50)
    ELSE IF l.distance >= 20 THEN RInt(0)
    ELSE RSub(RInt(100), Percent(l.distance, 20))
ExpectedPriceScore(l, cfg) ==
    LET price == IF l.price \in {None, 0} THEN 0 ELSE l.price
        lo == IF cfg.min_price \in {None, 0} THEN 0 ELSE cfg.min_price
        hi == IF cfg.max_price \in {None, 0} THEN 2 * price ELSE cfg.max_price
    IN  IF hi <= lo THEN RInt(50)
        ELSE IF price <= lo THEN RInt(100)
        ELSE IF price >= hi THEN RInt(0)
        ELSE RSub(RInt(100), Percent(price - lo, hi - lo))
ExpectedNewnessScore(l) ==
    LET days == IF l.days_on_market \in {None, 0} THEN 30 ELSE l.days_on_market
    IN  IF days >= 60 THEN RInt(0) ELSE RSub(RInt(100), Percent(days, 60))
ExpectedBase(l, cfg) ==
    RAdd(RAdd(RMul(<<2, 5>>, ExpectedDistanceScore(l)),
              RMul(<<3, 10>>, ExpectedPriceScore(l, cfg))),
         RMul(<<3, 10>>, ExpectedNewnessScore(l)))

\* C16: the relevance score is base * boost with base = 0.4*distance_score +
\* 0.3*price_score + 0.3*newness_score; a missing distance scores 50, missing
\* days-on-market count as 30 days, price bounds with hi <= lo score 50; price
\* $500,000 within [0, $1,000,000], distance 10, no days-on-market and the
\* neutral profile score exactly 50.
C16_ScoreIsBaseTimesBoost ==
    pc = "scored" =>
        LET l == new_listings[1]
        IN  /\ l.relevance_score
                = RMul(ExpectedBase(l, config), calculate_preference_boost(l, preferences))
            /\ l.distance = None => distance_score(l.distance) = RInt(50)
            /\ l.days_on_market = None => newness_score(l.days_on_market) = RInt(50)
            /\ (Truthy(config.min_price) /\ Truthy(config.max_price)
                    /\ config.max_price <= config.min_price)
                  => price_score(l.price, config) = RInt(50)
            /\ (/\ l.price = 500 /\ l.distance = 10 /\ l.days_on_market = None
                /\ config.min_price = 0 /\ config.max_price = 1000
                /\ preferences = get_default_preferences)
                  => l.relevance_score = RInt(50)

\* the scenario of the claim, scored
C16_Witness ==
    /\ pc = "scored"
    /\ new_listings[1].price = 500 /\ new_listings[1].distance = 10
    /\ new_listings[1].days_on_market = None
    /\ config.min_price = 0 /\ config.max_price = 1000
    /\ preferences = get_default_preferences
    /\ new_listings[1].relevance_score = RInt(50)

\* C17 as stated: for every scored listing each of the three sub-scores lies
\* in [0, 100]; distance_score is 100 at distance 0 and 0 from 20 miles on.
C17_SubScoresWithin0To100 ==
    pc = "scored" =>
        LET l == new_listings[1]
        IN  /\ Within0To100(distance_score(l.distance))
            /\ Within0To100(price_score(l.price, config))
            /\ Within0To100(newness_score(l.days_on_market))
            /\ Within0To100(base_score(l, config))
            /\ l.distance = 0 => distance_score(l.distance) = RInt(100)
            /\ (l.distance # None /\ l.distance >= 20) => distance_score(l.distance) = RInt(0)

\* the price-proximity tier for a price and an ideal price n/d, by the
\* relative difference |price - ideal| / ideal = diff / n
PriceTier(price, ideal) ==
    LET diff == Abs(price * ideal[2] - ideal[1])
    IN  IF 10 * diff < ideal[1] THEN <<6, 5>>
        ELSE IF 5 * diff < ideal[1] THEN <<11, 10>>
        ELSE IF 2 * diff > ideal[1] THEN <<9, 10>>
        ELSE <<1, 1>>
WithoutIdealPrice(prefs) == [prefs EXCEPT !.ideal_price = NoneR]

C19_LoveTarrytownIsAdded ==
    (outcome # "NoCall" /\ feedback_text = "I love Tarrytown, max $750k, no HOA") =>
        /\ outcome = "Returned"
        /\ InList("Tarrytown", feedback_updates.add_neighborhoods)
        /\ ~InList("Tarrytown", feedback_updates.remove_neighborhoods)
        /\ feedback_updates.max_price = 750000
        /\ feedback_updates.hoa_preference = "False"

\* C20 as stated: parse_feedback returns for every text; a text whose price
\* phrase holds no well-formed amount returns an update set without a price.
C20_ParseNeverRaises ==
    outcome # "NoCall" =>
        /\ outcome = "Returned"
        /\ (\E c \in {", under $1.2.3m", ", maximum price $."} :
                Contains(feedback_text, c)) => feedback_updates.max_price = None

\* ------------------------------------------------------------------------
\* The feedback applier
\* ------------------------------------------------------------------------
\* C21 as stated: after an update set that adds neighborhood n was applied,
\* whatever the profile was before, n has weight exactly 3/2 and stands in
\* the preferred list exactly once.
C21_AddedIsListedOnceWithWeightThreeHalves ==
    outcome = "Applied" =>
        \A n \in Range(feedback_updates.add_neighborhoods) :
            /\ n \in DOMAIN preferencesStore.neighborhood_weights
            /\ preferencesStore.neighborhood_weights[n] = <<3, 2>>
            /\ Occurrences(n, preferencesStore.preferred_neighborhoods) = 1

\* C22 as stated: after an update set that removes neighborhood n was applied,
\* whatever the profile was before, n has weight exactly 1/2 and is not in
\* the preferred list.
C22_RemovedIsUnlistedWithWeightHalf ==
    outcome = "Applied" =>
        \A n \in Range(feedback_updates.remove_neighborhoods) :
            /\ n \in DOMAIN preferencesStore.neighborhood_weights
            /\ preferencesStore.neighborhood_weights[n] = <<1, 2>>
            /\ ~InList(n, preferencesStore.preferred_neighborhoods)

\* the numeric bounds an update set carries, as configuration deltas
NumericDeltas(u) ==
    {<<"max_price", u.max_price>>, <<"min_price", u.min_price>>,
     <<"min_beds", u.min_beds>>, <<"min_baths", u.min_baths>>}
        \ {<<k, None>> : k \in {"max_price", "min_price", "min_beds", "min_baths"}}
Unnamed(names, named) == SelectSeq(names, LAMBDA n : n \notin named)

C24_ScoringAndSelectionNeverRaise ==
    /\ pc # "raised"
    /\ pc = "candidates" =>
          \A i \in 1..Len(new_listings) :
              /\ ~price_score_raises(new_listings[i].price, config)
              /\ ~boost_raises(new_listings[i], preferences)
    /\ pc = "scored" =>
          ~SwapRaises(new_listings, Backfill(new_listings, QuotaPick(new_listings)),
                      preferences.preferred_neighborhoods)
    /\ (pc = "selected" /\ swapped) => quota_selection # << >>

\* a candidate with a price, scored and selected under equal price bounds
\* with a profile whose ideal price is 0
C24_Witness ==
    /\ pc = "selected"
    /\ Truthy(config.max_price) /\ config.max_price = config.min_price
    /\ preferences.ideal_price = RInt(0)
    /\ Len(top_listings) = 1 /\ Truthy(top_listings[1].price)
    /\ Truthy(top_listings[1].sqft)

\* ------------------------------------------------------------------------
\* Runs one after the other
\* ------------------------------------------------------------------------
ListingIds == {Catalog[k].zpid : k \in DOMAIN Catalog} \ {0}
Selected(z) == pc \in AfterSelection /\ z \in Shortlist

\* C25: with normal-mode runs only, an identifier that is in the shortlist
\* of a run is in the shortlist of no later run: once that run is over, it
\* is never selected again.
C25_SelectedInAtMostOneRun ==
    \A z \in ListingIds : [](Selected(z) => [](pc = "idle" => [](~Selected(z))))

\* a run whose response holds a listing that an earlier run selected (it is
\* dismissed by now) and one the buyer favorited, and that selects others
C25_Witness ==
    /\ pc = "selected" /\ ~TESTING_MODE
    /\ top_listings # << >>
    /\ \E i \in 1..Len(filtered) :
          /\ filtered[i].zpid \in Range(stores_at_start.dismissed)
          /\ filtered[i].zpid \notin FavoriteZpids(stores_at_start.favorites)
          /\ filtered[i].zpid \notin Shortlist
    /\ stores_at_start.favorites # << >>


\* the candidates of the fixed source: what it returns that passes the
\* filter, has an identifier and is not a favorite
IsCandidate(z) ==
    /\ z \notin FavoriteZpids(favoritesStore)
    /\ \E i \in 1..Len(market) :
          Catalog[market[i]].zpid = z /\ matches(Catalog[market[i]])

\* C26: with a fixed source and fixed favorites, and normal-mode runs that
\* each complete, every candidate that is not a favorite is eventually in
\* the shortlist of some run, and from some point on every run selects
\* nothing and saves an empty pending list.
C26_EveryCandidateIsEventuallyShown ==
    /\ \A z \in ListingIds : IsCandidate(z) => <>Selected(z)
    /\ <>[](/\ pc \in AfterSelection => top_listings = << >>
            /\ pc \in {"email", "done"} => pendingStore = << >>)

C26_Witness ==
    /\ pc = "done"
    /\ top_listings = << >> /\ pendingStore = << >>
    /\ Len(market) = 12
    /\ \A z \in ListingIds : IsCandidate(z) => z \in Range(dismissedStore)
    /\ \E z \in ListingIds : IsCandidate(z)


\* C27 as stated: a run adds to dismissed no identifier of the favorites it
\* loaded, and the favorites and dismissed stores have no identifier in
\* common.
C27_FavoritesAreNeverDismissed ==
    /\ pc \in AfterPreferences \ {"dismissal"} =>
          Range(SliceFrom(dismissed, Len(stores_at_start.dismissed)))
              \cap FavoriteZpids(favorites) = {}
    /\ Range(dismissedStore) \cap FavoriteZpids(favoritesStore) = {}


\* C28 as stated: a listing with a days-on-market count of 0 or more has a
\* newness score, and a relevance score, at least as high as the same listing
\* would have with any higher count.
C28_NewnessNeverRisesWithAge ==
    pc = "scored" =>
        LET l == new_listings[1]
            days == l.days_on_market
        IN  (days # None /\ days >= 0) =>
                \A later \in {d \in ScoreDays \cup {days + 1} : d # None /\ d >= days} :
                    /\ RLeq(newness_score(later), newness_score(days))
                    /\ RLeq(calculate_relevance_score([l EXCEPT !.days_on_market = later],
                                                      config, preferences),
                            l.relevance_score)


\* C29 as stated: after the whole selection, the preferred-neighborhood swap
\* included, the shortlist has a listing at or over the threshold if any
\* candidate is, and a listing under the threshold if any candidate is.
C29_BothBucketsSurviveTheSwap ==
    pc \in AfterSelection =>
        /\ (\E i \in 1..Len(new_listings) : PriceOrZero(new_listings[i]) >= Threshold)
              => \E j \in 1..Len(top_listings) : PriceOrZero(top_listings[j]) >= Threshold
        /\ (\E i \in 1..Len(new_listings) : PriceOrZero(new_listings[i]) < Threshold)
              => \E j \in 1..Len(top_listings) : PriceOrZero(top_listings[j]) < Threshold


\* the favorites that contribute the neighborhood, as their own or as a
\* nearby one
Contributors(n, favs) ==
    Cardinality({i \in 1..Len(favs) : InList(n, FavoriteNeighborhoods(favs[i]))})

\* C30 as stated: in the derived profile every favorite counts at most once
\* for a neighborhood, its own neighborhood included: the weight of a
\* neighborhood is that of the number of favorites contributing it.
C30_OneCountPerFavorite ==
    (pc = "dismissal" /\ favorites # << >>) =>
        LET names == DOMAIN preferences.neighborhood_weights
            counts == {Contributors(n, favorites) : n \in names}
        IN  \A n \in names :
                preferences.neighborhood_weights[n]
                    = NeighborhoodWeight(Contributors(n, favorites),
                                         CHOOSE m \in counts : \A c \in counts : c <= m)

====
